---------------------------- MODULE Spec2Model ----------------------------
(***************************************************************************)
(* Verification model of the CanonicalStaging landing-page auditor.        *)
(*                                                                         *)
(* The parts of the program are modelled separately, each with its own     *)
(* specification over its own variables:                                   *)
(*   SpecAudit    AuditEngine.auditUrls, the bounded dispatcher            *)
(*   SpecDispatch SpecAudit without the operator's calls                   *)
(*   SpecPage     AuditEngine.auditSingleUrl for one URL, in detail        *)
(*   SpecCrawl    CrawlerEngine.discoverUrls / crawlPage                   *)
(*   SpecContexts SpecPage and SpecCrawl side by side (render contexts)    *)
(*   SpecBaseline the detectors' baseline store                            *)
(*   SpecHeadings HTMLStructureAuditor: heading comparison                 *)
(*   SpecStructure HTMLStructureAuditor: structure comparison              *)
(*   SpecStyling  HTMLStructureAuditor: styling comparison                 *)
(*   SpecVisual   the visual detector's screenshot comparison              *)
(*   SpecResolver UrlResolver.normalize                                    *)
(*   SpecStore    HTMLStructureAuditor.audit and its baseline file         *)
(*   SpecLanding  LandingPageAuditor.auditLandingPage                      *)
(*   SpecPlugins  auditSingleUrl's auditors and compileAuditResults        *)
(*   SpecBackoff  AuditEngine.handleRateLimit's delays                     *)
(*   SpecSuspicious HTMLStructureAuditor.isSuspiciousStyling               *)
(*   SpecSelfComparison a page audited against its own snapshot            *)
(*   SpecLimiter  RateLimiter.acquire                                      *)
(*   SpecDispatchFair SpecDispatch with the scheduling of its steps        *)
(***************************************************************************)
EXTENDS Integers, Sequences, FiniteSets, TLC

(***************************************************************************)
(* Bounds of the model.                                                    *)
(***************************************************************************)
NumUrls == 3
MaxConcurrent == 2
NumPlugins == 2
Retries == 1
NumCrawlUrls == 3
NumKeys == 2
NumCalls == 2
NumContents == 2
MaxDepthBound == 2
MaxUrlsBound == 4
MaxHeadings == 2
MaxWidth == 5
MaxHeight == 2
MaxTime == 5
MaxAcquires == 4

\* handleRateLimit gives up once the URL's retry count has reached this.
MaxRateLimitRetries == 3

Urls == 1..NumUrls
Plugins == 1..NumPlugins
Levels == 0..MaxRateLimitRetries

NoResult == [url |-> 0, success |-> FALSE, statusCode |-> -1]
NoCompiled == [named |-> {}, issues |-> <<>>, set |-> FALSE]

Min(a, b) == IF a < b THEN a ELSE b
Max(a, b) == IF a > b THEN a ELSE b

SeqToSet(s) == {s[i] : i \in 1..Len(s)}

VARIABLES
  \* ---- AuditEngine.auditUrls (dispatcher) ----
  auditUrlsPc,      \* "notcalled" | "loop" | "returned"
  pending,          \* const pending = [...crawlResults]
  runningTasks,     \* this.runningTasks
  concurrentLimit,  \* this.concurrentLimit
  auditResults,     \* const auditResults = []
  successful,       \* const successful = []
  failed,           \* const failed = []
  requestCount,     \* this.requestCount
  browser,          \* this.browser: "open" | "closed" (close() called) | "null"
  task,             \* per URL: position of its auditSingleUrl promise
  decs,             \* per URL: how many times its handlers ran runningTasks--
  stopPc,           \* emergencyStop: "idle" | "closing"
  keepWindowsOpen,  \* this.config.keepWindowsOpen
  activePages,      \* keys of this.activePages
  progressCalls,    \* arguments of the progressCallback calls so far, in order
  \* ---- AuditEngine.auditSingleUrl for one URL ----
  pagePc,           \* position of the innermost auditSingleUrl call
  level,            \* nesting depth of auditSingleUrl -> handleRateLimit calls
  rateLimitRetries, \* this.rateLimitRetries.get(url) || 0
  attempt,          \* navigateWithRetry's loop counter
  gotos,            \* page.goto calls made for the URL so far
  lastGoto,         \* what the latest of them did
  only429,          \* every page.goto so far answered 429
  ctx,              \* per call: its render context "none" | "open" | "closed"
  pg,               \* per call: its page "none" | "open" | "closed"
  activeEntry,      \* this.activePages.get(url): call whose page it holds, -1 if none
  auditCall,        \* per plugin: its audit() call
  wrapper,          \* per plugin: its runAuditorWithTimeout promise
  compiled,         \* compileAuditResults' return value
  pageResult,       \* the AuditResult auditSingleUrl resolves with
  \* ---- CrawlerEngine.discoverUrls / crawlPage ----
  crawlPc,          \* "notcalled" | "loop" | "goto" | "extract" | "returned" | "cleaned"
  maxDepth,         \* this.config.maxDepth
  maxUrls,          \* this.config.maxUrls
  followExternalLinks, \* options.followExternalLinks
  crawlQueue,       \* this.crawlQueue.queue
  discoveredUrls,   \* this.discoveredUrls
  visitedUrls,      \* this.visitedUrls
  failedUrls,       \* this.failedUrls
  cache,            \* this.cache: per URL its memoized links, or NoLinks
  cur,              \* crawlPage's (url, depth) arguments
  crawlCtx,         \* per URL: crawlPage's context "none" | "open" | "closed"
  crawlPg,          \* per URL: crawlPage's page "none" | "open" | "closed"
  crawlActive,      \* keys of the crawler's this.activePages
  \* ---- the detectors' baseline store ----
  baselineFile,     \* per baseline path: 0 (no file) or the content stored
  autoWrites,       \* per baseline path: automatic writes since it was last removed
  call,             \* per detector call: its position, path, page content, origin
  \* ---- HTMLStructureAuditor's comparison, manipulation-detector ----
  htmlPc,           \* "notcalled" | "ready" | "audited" | "reported"
  baselinePage,     \* the page as it was when the baseline file was written
  currentPage,      \* the page audit(page, url) is given
  htmlAudit,        \* audit's return value
  manipulationReport, \* generateManipulationReport's heading entries
  \* ---- VisualRegressionAuditor.compareScreenshots / processComparison ----
  visualPc,         \* "notcalled" | "ready" | "compared" | "processed" | "reported"
  baselineImage,    \* the decoded baseline PNG
  currentImage,     \* the decoded current PNG
  threshold,        \* this.config.threshold, in tenths of a percent
  fsFails,          \* which file operation throws: "none" | "read" | "write"
  visualComparison, \* compareScreenshots' return value
  pixelmatchCalls,  \* how many times pixelmatch was called
  diffFile,         \* whether a file exists at diffPath
  visualFindings,   \* processComparison's issues, warnings, recommendations
  visualChanges,    \* detectVisualChanges' entries
  visualScore,      \* the score of audit's return value
  \* ---- UrlResolver ----
  resolverPc,       \* "notcalled" | "ready" | "once" | "twice"
  normalizeArg,     \* the string given to normalize(url)
  normalized,       \* normalize(url)
  renormalized,     \* normalize(normalize(url))
  \* ---- HTMLStructureAuditor.audit and its baseline file ----
  structureFile,    \* the file <urlHash>_structure.json: exists, readable, content
  auditLog,         \* the audit(page, url) calls made so far: page and outcome
  \* ---- LandingPageAuditor.auditLandingPage ----
  landingPc,        \* position in auditLandingPage
  notifications,    \* options.notifications !== false
  crawlResults,     \* number of CrawlResults discoverUrls returned
  landingResults,   \* auditResults: per audited URL its success flag
  summary,          \* the AuditSummary built, if any
  landingThrown,    \* whether auditLandingPage is rethrowing an error
  \* ---- AuditEngine: the auditors of one page and their compiled result ----
  pluginsPc,        \* "notcalled" | "running" | "compiled"
  engineConfig,     \* this.config of the AuditEngine: its include* flags
  runOptions,       \* the options auditSingleUrl is given: their include* flags
  auditorsMap,      \* this.auditors: the registered names in insertion order
  settled,          \* per auditor that was started: "pending" | "ok" | "failed"
  firstSettled,     \* the auditor whose promise settled first
  compiledResults,  \* compileAuditResults' return value
  finalResult,      \* the AuditResult built from it
  \* ---- AuditEngine.handleRateLimit: the backoff delays of one URL ----
  backoffConfig,    \* this.config.rateLimitDelay and this.config.maxRetryDelay
  backoffRetries,   \* this.rateLimitRetries.get(url) || 0
  backoffPc,        \* "waiting" for a 429 | "failed" (gave up)
  sleeps,           \* the sleeps of handleRateLimit for the URL, in order
  \* ---- RateLimiter ----
  limiter,          \* this.requests and this.window
  clock,            \* Date.now()
  admitted,         \* this.queue: the times pushed by acquire
  timers,           \* due times of the pending setTimeout callbacks
  resolved          \* times at which acquire() promises resolved, in order

auditVars == <<auditUrlsPc, pending, runningTasks, concurrentLimit,
               auditResults, successful, failed, requestCount, browser,
               task, decs, stopPc, keepWindowsOpen, activePages, progressCalls>>

pageVars == <<pagePc, level, rateLimitRetries, attempt, gotos, lastGoto, only429, ctx,
              pg, activeEntry, auditCall, wrapper, compiled, pageResult>>

crawlVars == <<crawlPc, maxDepth, maxUrls, followExternalLinks, crawlQueue,
               discoveredUrls, visitedUrls, failedUrls, cache, cur, crawlCtx,
               crawlPg, crawlActive>>

baselineVars == <<baselineFile, autoWrites, call>>

htmlVars == <<htmlPc, baselinePage, currentPage, htmlAudit, manipulationReport>>

visualVars == <<visualPc, baselineImage, currentImage, threshold, fsFails,
                visualComparison, pixelmatchCalls, diffFile, visualFindings,
                visualChanges, visualScore>>

resolverVars == <<resolverPc, normalizeArg, normalized, renormalized>>

storeVars == <<structureFile, auditLog>>

landingVars == <<landingPc, notifications, crawlResults, landingResults, summary, landingThrown>>

pluginVars == <<pluginsPc, engineConfig, runOptions, auditorsMap, settled, firstSettled, compiledResults, finalResult>>

backoffVars == <<backoffConfig, backoffRetries, backoffPc, sleeps>>

limiterVars == <<limiter, clock, admitted, timers, resolved>>

detectorVars == <<htmlVars, visualVars, resolverVars, storeVars, landingVars, pluginVars, backoffVars, limiterVars>>

vars == <<auditVars, pageVars, crawlVars, baselineVars, detectorVars>>

(***************************************************************************)
(* AuditEngine.auditUrls                                                   *)
(***************************************************************************)

\* new AuditResult({url, success, statusCode, ...}) as the dispatcher sees it
AuditResult(u, ok, code) == [url |-> u, success |-> ok, statusCode |-> code]

\* The results auditSingleUrl can resolve with once a context was opened:
\* success (834), the catch block's failure (854), handleRateLimit's
\* exhausted failure (906).
TaskOutcomes(u) ==
  { AuditResult(u, TRUE, 200), AuditResult(u, FALSE, 0), AuditResult(u, FALSE, 429) }

CrawlUrls == 1..NumCrawlUrls
NoLinks == {0}
NoTask == [url |-> 0, depth |-> 0]
NoGoto == [kind |-> "none", status |-> 0]

Keys == 1..NumKeys
Calls == 1..NumCalls
Contents == 1..NumContents
NoCall == [pc |-> "idle", key |-> 0, content |-> 0, explicit |-> FALSE]

\* No page, image or URL has been handed to the detectors or the resolver.
HtmlIdle ==
  /\ htmlPc = "notcalled"
  /\ baselinePage = "none"
  /\ currentPage = "none"
  /\ htmlAudit = "none"
  /\ manipulationReport = "none"

VisualIdle ==
  /\ visualPc = "notcalled"
  /\ baselineImage = "none"
  /\ currentImage = "none"
  /\ threshold = 0
  /\ fsFails = "none"
  /\ visualComparison = "none"
  /\ pixelmatchCalls = 0
  /\ diffFile = FALSE
  /\ visualFindings = "none"
  /\ visualChanges = "none"
  /\ visualScore = "none"

ResolverIdle ==
  /\ resolverPc = "notcalled"
  /\ normalizeArg = "none"
  /\ normalized = "none"
  /\ renormalized = "none"

StoreIdle ==
  /\ structureFile = [exists |-> FALSE, readable |-> FALSE]
  /\ auditLog = <<>>

LandingIdle ==
  /\ landingPc = "notcalled"
  /\ notifications = FALSE
  /\ crawlResults = 0
  /\ landingResults = <<>>
  /\ summary = [produced |-> FALSE]
  /\ landingThrown = FALSE

PluginsIdle ==
  /\ pluginsPc = "notcalled"
  /\ engineConfig = "none"
  /\ runOptions = "none"
  /\ auditorsMap = <<>>
  /\ settled = <<>>
  /\ firstSettled = "none"
  /\ compiledResults = "none"
  /\ finalResult = "none"

NoBackoffConfig == [rateLimitDelay |-> 0, maxRetryDelay |-> 0]

BackoffIdle ==
  /\ backoffConfig = NoBackoffConfig
  /\ backoffRetries = 0
  /\ backoffPc = "notcalled"
  /\ sleeps = <<>>

NoLimiter == [requests |-> 0, window |-> 0]

LimiterIdle ==
  /\ limiter = NoLimiter
  /\ clock = 0
  /\ admitted = <<>>
  /\ timers = <<>>
  /\ resolved = <<>>

DetectorsIdle == HtmlIdle /\ VisualIdle /\ ResolverIdle /\ StoreIdle /\ LandingIdle /\ PluginsIdle /\ BackoffIdle /\ LimiterIdle

\* An empty baseline directory and no detector call.
BaselineIdle ==
  /\ baselineFile = [k \in Keys |-> 0]
  /\ autoWrites = [k \in Keys |-> 0]
  /\ call = [c \in Calls |-> NoCall]

\* The crawler is not part of the run: its fields as constructed (32-44).
CrawlIdle ==
  /\ BaselineIdle
  /\ crawlPc = "notcalled"
  /\ maxDepth = 0
  /\ maxUrls = 1
  /\ followExternalLinks = FALSE
  /\ crawlQueue = <<>>
  /\ discoveredUrls = {}
  /\ visitedUrls = {}
  /\ failedUrls = {}
  /\ cache = [u \in CrawlUrls |-> NoLinks]
  /\ cur = NoTask
  /\ crawlCtx = [u \in CrawlUrls |-> "none"]
  /\ crawlPg = [u \in CrawlUrls |-> "none"]
  /\ crawlActive = {}

\* No auditSingleUrl call is modelled step by step: the state of a freshly
\* constructed engine (391-421), with the call at position pc.
PageIdle(pc) ==
  /\ pagePc = pc
  /\ level = 0
  /\ rateLimitRetries = 0
  /\ attempt = 0
  /\ gotos = 0
  /\ lastGoto = NoGoto
  /\ only429 = TRUE
  /\ ctx = [l \in Levels |-> "none"]
  /\ pg = [l \in Levels |-> "none"]
  /\ activeEntry = -1
  /\ auditCall = [p \in Plugins |-> "idle"]
  /\ wrapper = [p \in Plugins |-> "none"]
  /\ compiled = NoCompiled
  /\ pageResult = NoResult

\* No engine has been asked to do anything.
EnginesIdle ==
  /\ auditUrlsPc = "notcalled"
  /\ pending = <<>>
  /\ runningTasks = 0
  /\ concurrentLimit = MaxConcurrent
  /\ auditResults = <<>>
  /\ successful = <<>>
  /\ failed = <<>>
  /\ requestCount = 0
  /\ browser = "null"
  /\ task = [u \in Urls |-> "idle"]
  /\ decs = [u \in Urls |-> 0]
  /\ stopPc = "idle"
  /\ keepWindowsOpen = FALSE
  /\ activePages = {}
  /\ progressCalls = <<>>
  /\ PageIdle("notcalled")
  /\ CrawlIdle

InitAudit ==
  /\ auditUrlsPc = "loop"
  /\ pending = [i \in 1..NumUrls |-> i]
  /\ runningTasks = 0
  /\ concurrentLimit \in 1..MaxConcurrent
  /\ auditResults = <<>>
  /\ successful = <<>>
  /\ failed = <<>>
  /\ requestCount = 0
  /\ browser = "open"
  /\ task = [u \in Urls |-> "idle"]
  /\ decs = [u \in Urls |-> 0]
  /\ stopPc = "idle"
  /\ keepWindowsOpen \in BOOLEAN
  /\ activePages = {}
  /\ progressCalls = <<>>
  /\ PageIdle("notcalled")
  /\ CrawlIdle
  /\ DetectorsIdle

\* Number of tasks the inner while loop starts in one pass (no await inside).
Startable == Min(Len(pending), Max(0, concurrentLimit - runningTasks))

\* One pass of the outer while loop whose condition holds: the inner loop
\* starts tasks while runningTasks < concurrentLimit, then sleeps 200 ms.
StartTasks ==
  /\ auditUrlsPc = "loop"
  /\ (Len(pending) > 0 \/ runningTasks > 0)
  /\ LET k == Startable IN
       /\ task' = [u \in Urls |->
                     IF \E i \in 1..k : pending[i] = u
                       THEN "applyRateLimit" ELSE task[u]]
       /\ pending' = SubSeq(pending, k + 1, Len(pending))
       /\ runningTasks' = runningTasks + k
  /\ UNCHANGED <<auditUrlsPc, concurrentLimit, auditResults, successful,
                 failed, requestCount, browser, decs, stopPc,
                 keepWindowsOpen, activePages, progressCalls>>
  /\ UNCHANGED <<pageVars, crawlVars, baselineVars, detectorVars>>

\* The outer loop's condition is false: auditUrls returns auditResults.
AuditUrlsReturn ==
  /\ auditUrlsPc = "loop"
  /\ ~(Len(pending) > 0 \/ runningTasks > 0)
  /\ auditUrlsPc' = "returned"
  /\ UNCHANGED <<pending, runningTasks, concurrentLimit, auditResults,
                 successful, failed, requestCount, browser, task, decs, stopPc,
                 keepWindowsOpen, activePages, progressCalls>>
  /\ UNCHANGED <<pageVars, crawlVars, baselineVars, detectorVars>>

\* The .then handler (586-616) for result r, with a progress callback
\* supplied (LandingPageAuditor.auditUrls always passes one, 171-175): the
\* callback receives the lengths of the three lists as they are after the
\* pushes of 587-594. If the callback throws (cbThrows) the handler stops
\* there and the .catch handler (617-643) runs.
Completion(u, r, cbThrows) ==
  /\ progressCalls' =
       Append(progressCalls,
              [current |-> Len(auditResults) + 1,
               total |-> NumUrls,
               url |-> u,
               result |-> r,
               successful |-> Len(successful) + (IF r.success THEN 1 ELSE 0),
               failed |-> Len(failed) + (IF r.success THEN 0 ELSE 1)])
  /\ auditResults' =
       IF cbThrows
         THEN auditResults \o <<r, AuditResult(u, FALSE, 0)>>
         ELSE Append(auditResults, r)
  /\ runningTasks' = IF cbThrows THEN runningTasks - 2 ELSE runningTasks - 1
  /\ decs' = [decs EXCEPT ![u] = IF cbThrows THEN @ + 2 ELSE @ + 1]
  /\ successful' = IF r.success THEN Append(successful, u) ELSE successful
  /\ failed' =
       LET f1 == IF r.success THEN failed ELSE Append(failed, u)
       IN IF cbThrows THEN Append(f1, u) ELSE f1
  /\ requestCount' = requestCount + 1
  /\ task' = [task EXCEPT ![u] = "done"]

\* auditSingleUrl after applyRateLimit: this.browser.newContext(). With the
\* browser gone (emergencyStop) the call throws and the catch block resolves
\* the task with a failed result.
TaskOpenContext(u) ==
  /\ task[u] = "applyRateLimit"
  /\ IF browser = "open"
       THEN /\ task' = [task EXCEPT ![u] = "auditing"]
            /\ UNCHANGED <<auditResults, runningTasks, decs, successful,
                           failed, requestCount, progressCalls>>
       ELSE \E cbThrows \in BOOLEAN :
              Completion(u, AuditResult(u, FALSE, 0), cbThrows)
  /\ UNCHANGED <<auditUrlsPc, pending, concurrentLimit, browser, stopPc,
                 keepWindowsOpen, activePages>>
  /\ UNCHANGED <<pageVars, crawlVars, baselineVars, detectorVars>>

\* auditSingleUrl resolves (on success with keepWindowsOpen it has recorded
\* its page in activePages, 799-809) and its completion handler runs.
TaskSettle(u) ==
  /\ task[u] = "auditing"
  /\ \E r \in TaskOutcomes(u), cbThrows \in BOOLEAN :
       /\ Completion(u, r, cbThrows)
       /\ activePages' = IF r.success /\ keepWindowsOpen
                           THEN activePages \cup {u} ELSE activePages
  /\ UNCHANGED <<auditUrlsPc, pending, concurrentLimit, browser, stopPc,
                 keepWindowsOpen>>
  /\ UNCHANGED <<pageVars, crawlVars, baselineVars, detectorVars>>

AdjustInputs == {0, 1, 2, 3, 11}

\* adjustConcurrency(newLimit)
AdjustConcurrency(newLimit) ==
  /\ concurrentLimit' = Max(1, Min(newLimit, 10))
  /\ UNCHANGED <<auditUrlsPc, pending, runningTasks, auditResults, successful,
                 failed, requestCount, browser, task, decs, stopPc,
                 keepWindowsOpen, activePages, progressCalls>>
  /\ UNCHANGED <<pageVars, crawlVars, baselineVars, detectorVars>>

\* browser.close() closes every context and page of the browser.
CloseAll(f) == [l \in Levels |-> IF f[l] = "open" THEN "closed" ELSE f[l]]

\* emergencyStop() up to its await: with a browser it calls browser.close();
\* without one it runs to its end at once.
EmergencyStopCall ==
  /\ stopPc = "idle"
  /\ IF browser # "null"
       THEN /\ stopPc' = "closing"
            /\ browser' = "closed"
            /\ ctx' = CloseAll(ctx)
            /\ pg' = CloseAll(pg)
            /\ UNCHANGED <<runningTasks, activePages, activeEntry>>
       ELSE /\ runningTasks' = 0
            /\ activePages' = {}
            /\ activeEntry' = -1
            /\ UNCHANGED <<stopPc, browser, ctx, pg>>
  /\ UNCHANGED <<auditUrlsPc, pending, concurrentLimit, auditResults,
                 successful, failed, requestCount, task, decs,
                 keepWindowsOpen, progressCalls>>
  /\ UNCHANGED <<pagePc, level, rateLimitRetries, attempt, gotos, lastGoto, only429,
                 auditCall, wrapper, compiled, pageResult, crawlVars,
                 baselineVars, detectorVars>>

\* emergencyStop() after browser.close() resolved
EmergencyStopFinish ==
  /\ stopPc = "closing"
  /\ browser' = "null"
  /\ activePages' = {}
  /\ activeEntry' = -1
  /\ runningTasks' = 0
  /\ stopPc' = "idle"
  /\ UNCHANGED <<auditUrlsPc, pending, concurrentLimit, auditResults,
                 successful, failed, requestCount, task, decs,
                 keepWindowsOpen, progressCalls>>
  /\ UNCHANGED <<pagePc, level, rateLimitRetries, attempt, gotos, lastGoto, only429,
                 ctx, pg, auditCall, wrapper, compiled, pageResult, crawlVars,
                 baselineVars, detectorVars>>

NextAudit ==
  \/ StartTasks
  \/ AuditUrlsReturn
  \/ \E u \in Urls : TaskOpenContext(u)
  \/ \E u \in Urls : TaskSettle(u)
  \/ \E n \in AdjustInputs : AdjustConcurrency(n)
  \/ EmergencyStopCall
  \/ EmergencyStopFinish

SpecAudit == InitAudit /\ [][NextAudit]_vars

\* auditUrls left to itself: no adjustConcurrency, no emergencyStop.
NextDispatch ==
  \/ StartTasks
  \/ AuditUrlsReturn
  \/ \E u \in Urls : TaskOpenContext(u)
  \/ \E u \in Urls : TaskSettle(u)

SpecDispatch == InitAudit /\ [][NextDispatch]_vars

\* auditUrls with its environment assumed to make progress: the loop's
\* 200 ms sleep returns (646), and every task's navigation attempts, sleeps
\* and timeout races come to an end, so that auditSingleUrl settles.
SpecDispatchFair ==
  /\ SpecDispatch
  /\ WF_vars(StartTasks)
  /\ WF_vars(AuditUrlsReturn)
  /\ \A u \in Urls : WF_vars(TaskOpenContext(u)) /\ WF_vars(TaskSettle(u))

(***************************************************************************)
(* AuditEngine.auditSingleUrl, handleRateLimit, navigateWithRetry,         *)
(* runAuditorWithTimeout, compileAuditResults, cleanup: one URL            *)
(***************************************************************************)

PageUrl == 1

\* What one page.goto can do: throw, resolve with no response, or resolve
\* with a response of some status.
StatusCodes == {200, 404, 429}
GotoOutcomes ==
  {[kind |-> "throw", status |-> 0], [kind |-> "null", status |-> 0]}
    \cup {[kind |-> "response", status |-> c] : c \in StatusCodes}

dispatchVars == <<auditUrlsPc, pending, runningTasks, concurrentLimit,
                  auditResults, successful, failed, requestCount, task, decs,
                  stopPc, activePages, progressCalls>>

\* The engine as auditUrls has just started auditSingleUrl for the URL.
InitPage ==
  /\ auditUrlsPc = "notcalled"
  /\ pending = <<>>
  /\ runningTasks = 0
  /\ concurrentLimit = MaxConcurrent
  /\ auditResults = <<>>
  /\ successful = <<>>
  /\ failed = <<>>
  /\ requestCount = 0
  /\ browser = "open"
  /\ task = [u \in Urls |-> "idle"]
  /\ decs = [u \in Urls |-> 0]
  /\ stopPc = "idle"
  /\ keepWindowsOpen \in BOOLEAN
  /\ activePages = {}
  /\ progressCalls = <<>>
  /\ PageIdle("applyRateLimit")
  /\ CrawlIdle
  /\ DetectorsIdle

\* The catch block (835-860): the call's result is a failed AuditResult and
\* control passes to the finally block.
Caught ==
  /\ pageResult' = AuditResult(PageUrl, FALSE, 0)
  /\ pagePc' = "finally"

\* applyRateLimit's sleeps are over; this.browser.newContext() (695-718).
NewContext ==
  /\ pagePc = "applyRateLimit"
  /\ IF browser = "open"
       THEN /\ ctx' = [ctx EXCEPT ![level] = "open"]
            /\ pagePc' = "newPage"
            /\ UNCHANGED pageResult
       ELSE /\ Caught
            /\ UNCHANGED ctx
  /\ UNCHANGED <<level, rateLimitRetries, attempt, gotos, lastGoto, only429, pg,
                 activeEntry, auditCall, wrapper, compiled>>
  /\ UNCHANGED <<dispatchVars, browser, keepWindowsOpen, crawlVars,
                 baselineVars, detectorVars>>

\* context.newPage() and setupPageForHumanSimulation (720-721)
NewPage ==
  /\ pagePc = "newPage"
  /\ IF ctx[level] = "open"
       THEN /\ pg' = [pg EXCEPT ![level] = "open"]
            /\ pagePc' = "navigate"
            /\ attempt' = 0
            /\ UNCHANGED pageResult
       ELSE /\ Caught
            /\ UNCHANGED <<pg, attempt>>
  /\ UNCHANGED <<level, rateLimitRetries, gotos, lastGoto, only429, ctx, activeEntry,
                 auditCall, wrapper, compiled>>
  /\ UNCHANGED <<dispatchVars, browser, keepWindowsOpen, crawlVars,
                 baselineVars, detectorVars>>

\* handleRateLimit giving up one 429 too late (retryCount > 3).
HandleRateLimitOffByOne ==
  LET retryCount == rateLimitRetries IN
  /\ pg' = [pg EXCEPT ![level] = "closed"]
  /\ ctx' = [ctx EXCEPT ![level] = "closed"]
  /\ IF retryCount > MaxRateLimitRetries
       THEN /\ pageResult' = AuditResult(PageUrl, FALSE, 429)
            /\ pagePc' = "finally"
            /\ UNCHANGED rateLimitRetries
       ELSE /\ rateLimitRetries' = retryCount + 1
            /\ pagePc' = "backoff"
            /\ UNCHANGED pageResult

\* handleRateLimit (898-932) up to its sleep, entered after the 429 branch
\* closed the call's page and context (737-740).
HandleRateLimit ==
  LET retryCount == rateLimitRetries IN
  /\ pg' = [pg EXCEPT ![level] = "closed"]
  /\ ctx' = [ctx EXCEPT ![level] = "closed"]
  /\ IF retryCount >= MaxRateLimitRetries
       THEN /\ pageResult' = AuditResult(PageUrl, FALSE, 429)
            /\ pagePc' = "finally"
            /\ UNCHANGED rateLimitRetries
       ELSE /\ rateLimitRetries' = retryCount + 1
            /\ pagePc' = "backoff"
            /\ UNCHANGED pageResult

\* navigateWithRetry giving up one failed attempt too late.
IsLastAttemptLate(a) == a > Retries

\* navigateWithRetry's test in its catch block (1087): the attempt that has
\* just thrown was the last one.
IsLastAttempt(a) == a >= Retries

\* One pass of navigateWithRetry's loop (1060-1139): page.goto does o; then,
\* when it returned a response, auditSingleUrl's checks of it (726-747).
NavAttempt(o) ==
  /\ pagePc = "navigate"
  /\ pg[level] # "open" => o.kind = "throw"
  /\ gotos' = gotos + 1
  /\ lastGoto' = o
  /\ only429' = (only429 /\ o.kind = "response" /\ o.status = 429)
  /\ CASE o.kind = "throw" /\ ~IsLastAttempt(attempt) ->
            /\ attempt' = attempt + 1
            /\ UNCHANGED <<pagePc, pageResult, rateLimitRetries, ctx, pg>>
       [] o.kind = "throw" /\ IsLastAttempt(attempt) ->
            /\ Caught
            /\ UNCHANGED <<attempt, rateLimitRetries, ctx, pg>>
       [] o.kind = "null" ->
            /\ Caught
            /\ UNCHANGED <<attempt, rateLimitRetries, ctx, pg>>
       [] o.kind = "response" /\ o.status = 429 ->
            /\ HandleRateLimit
            /\ UNCHANGED attempt
       [] o.kind = "response" /\ o.status # 429 /\ o.status >= 400 ->
            /\ Caught
            /\ UNCHANGED <<attempt, rateLimitRetries, ctx, pg>>
       [] o.kind = "response" /\ o.status < 400 ->
            /\ pagePc' = "settle"
            /\ UNCHANGED <<attempt, pageResult, rateLimitRetries, ctx, pg>>
  /\ UNCHANGED <<level, activeEntry, auditCall, wrapper, compiled>>
  /\ UNCHANGED <<dispatchVars, browser, keepWindowsOpen, crawlVars,
                 baselineVars, detectorVars>>

\* handleRateLimit's sleep is over: it calls auditSingleUrl again (930-931).
RetryAfterRateLimit ==
  /\ pagePc = "backoff"
  /\ level' = level + 1
  /\ pagePc' = "applyRateLimit"
  /\ UNCHANGED <<rateLimitRetries, attempt, gotos, lastGoto, only429, ctx, pg,
                 activeEntry, auditCall, wrapper, compiled, pageResult>>
  /\ UNCHANGED <<dispatchVars, browser, keepWindowsOpen, crawlVars,
                 baselineVars, detectorVars>>

\* The settle delay and load-state waits are over (749-770); every enabled
\* auditor is started inside runAuditorWithTimeout (772-782).
StartAuditors ==
  /\ pagePc = "settle"
  /\ auditCall' = [p \in Plugins |-> "running"]
  /\ wrapper' = [p \in Plugins |-> "pending"]
  /\ pagePc' = "plugins"
  /\ UNCHANGED <<level, rateLimitRetries, attempt, gotos, lastGoto, only429, ctx, pg,
                 activeEntry, compiled, pageResult>>
  /\ UNCHANGED <<dispatchVars, browser, keepWindowsOpen, crawlVars,
                 baselineVars, detectorVars>>

\* How the race of runAuditorWithTimeout (1159-1197) settles on an event: the
\* first event decides, later ones are ignored.
Settle(w, event) == IF w = "pending" THEN event ELSE w

\* auditor.audit(page, url) of plugin p returns a result.
AuditorReturns(p) ==
  /\ auditCall[p] = "running"
  /\ auditCall' = [auditCall EXCEPT ![p] = "returned"]
  /\ wrapper' = [wrapper EXCEPT ![p] = Settle(@, "ok")]
  /\ UNCHANGED <<pagePc, level, rateLimitRetries, attempt, gotos, lastGoto, only429,
                 ctx, pg, activeEntry, compiled, pageResult>>
  /\ UNCHANGED <<dispatchVars, browser, keepWindowsOpen, crawlVars,
                 baselineVars, detectorVars>>

\* auditor.audit(page, url) of plugin p throws.
AuditorThrows(p) ==
  /\ auditCall[p] = "running"
  /\ auditCall' = [auditCall EXCEPT ![p] = "threw"]
  /\ wrapper' = [wrapper EXCEPT ![p] = Settle(@, "failed")]
  /\ UNCHANGED <<pagePc, level, rateLimitRetries, attempt, gotos, lastGoto, only429,
                 ctx, pg, activeEntry, compiled, pageResult>>
  /\ UNCHANGED <<dispatchVars, browser, keepWindowsOpen, crawlVars,
                 baselineVars, detectorVars>>

\* The timer of plugin p's runAuditorWithTimeout fires before audit() ended;
\* audit() itself keeps running.
AuditorTimeout(p) ==
  /\ wrapper[p] = "pending"
  /\ wrapper' = [wrapper EXCEPT ![p] = Settle(@, "timeout")]
  /\ UNCHANGED <<pagePc, level, rateLimitRetries, attempt, gotos, lastGoto, only429,
                 ctx, pg, activeEntry, auditCall, compiled, pageResult>>
  /\ UNCHANGED <<dispatchVars, browser, keepWindowsOpen, crawlVars,
                 baselineVars, detectorVars>>

RECURSIVE FailureIssues(_, _)
\* The audit_failure issues compileAuditResults pushes, in the order of the
\* settled array (registration order), for plugins p..NumPlugins.
FailureIssues(w, p) ==
  IF p > NumPlugins THEN <<>>
  ELSE (IF w[p] = "ok" THEN <<>>
        ELSE <<[type |-> "audit_failure", auditor |-> p]>>)
       \o FailureIssues(w, p + 1)

\* compileAuditResults taking the failed auditor's name from a place where
\* there is none ("unknown").
CompileUnknownAuditor(w) ==
  [named |-> {p \in Plugins : w[p] = "ok"},
   issues |-> [i \in 1..Len(FailureIssues(w, 1)) |->
                 [type |-> "audit_failure", auditor |-> 0]],
   set |-> TRUE]

\* compileAuditResults (1231-1303) on the settled wrappers w
CompileAuditResults(w) ==
  [named |-> {p \in Plugins : w[p] = "ok"},
   issues |-> FailureIssues(w, 1),
   set |-> TRUE]

\* Promise.allSettled resolves (791); results are compiled, the page is
\* recorded in activePages when keepWindowsOpen, the successful AuditResult
\* is built and returned (792-834).
CompilePage ==
  /\ pagePc = "plugins"
  /\ \A p \in Plugins : wrapper[p] # "pending"
  /\ compiled' = CompileAuditResults(wrapper)
  /\ activeEntry' = IF keepWindowsOpen THEN level ELSE activeEntry
  /\ pageResult' = AuditResult(PageUrl, TRUE, 200)
  /\ pagePc' = "finally"
  /\ UNCHANGED <<level, rateLimitRetries, attempt, gotos, lastGoto, only429, ctx, pg,
                 auditCall, wrapper>>
  /\ UNCHANGED <<dispatchVars, browser, keepWindowsOpen, crawlVars,
                 baselineVars, detectorVars>>

\* A finally block that closes nothing.
CloseSkipped(st) == st

\* What a finally block's close() does to a page or context variable that
\* was assigned.
CloseIfSet(st) == IF st = "none" THEN "none" ELSE "closed"

\* The finally block (861-880) of the call at the current level; then the
\* call returns to the handleRateLimit that made it, or to auditUrls.
Finally ==
  /\ pagePc = "finally"
  /\ IF ~keepWindowsOpen
       THEN /\ pg' = [pg EXCEPT ![level] = CloseIfSet(@)]
            /\ ctx' = [ctx EXCEPT ![level] = CloseIfSet(@)]
       ELSE UNCHANGED <<pg, ctx>>
  /\ IF level = 0
       THEN /\ pagePc' = "done"
            /\ UNCHANGED level
       ELSE /\ level' = level - 1
            /\ UNCHANGED pagePc
  /\ UNCHANGED <<rateLimitRetries, attempt, gotos, lastGoto, only429, activeEntry,
                 auditCall, wrapper, compiled, pageResult>>
  /\ UNCHANGED <<dispatchVars, browser, keepWindowsOpen, crawlVars,
                 baselineVars, detectorVars>>

\* cleanup() (1305-1373) after the run: closes the pages of activePages,
\* closes the browser, clears the retry map and the request count.
Cleanup ==
  /\ pagePc = "done"
  /\ stopPc = "idle"
  /\ browser # "null"
  /\ activeEntry' = -1
  /\ activePages' = {}
  /\ ctx' = CloseAll(ctx)
  /\ pg' = CloseAll(pg)
  /\ browser' = "null"
  /\ rateLimitRetries' = 0
  /\ requestCount' = 0
  /\ UNCHANGED <<pagePc, level, attempt, gotos, lastGoto, only429, auditCall, wrapper,
                 compiled, pageResult>>
  /\ UNCHANGED <<auditUrlsPc, pending, runningTasks, concurrentLimit,
                 auditResults, successful, failed, task, decs, stopPc,
                 keepWindowsOpen, progressCalls, crawlVars, baselineVars,
                 detectorVars>>

NextPage ==
  \/ NewContext
  \/ NewPage
  \/ \E o \in GotoOutcomes : NavAttempt(o)
  \/ RetryAfterRateLimit
  \/ StartAuditors
  \/ \E p \in Plugins : AuditorReturns(p)
  \/ \E p \in Plugins : AuditorThrows(p)
  \/ \E p \in Plugins : AuditorTimeout(p)
  \/ CompilePage
  \/ Finally
  \/ Cleanup
  \/ EmergencyStopCall
  \/ EmergencyStopFinish

SpecPage == InitPage /\ [][NextPage]_vars

(***************************************************************************)
(* CrawlerEngine.discoverUrls, crawlPage, cleanup; CrawlQueue              *)
(***************************************************************************)

\* The normalized seed URL; the last URL of the universe is on another host.
SeedUrl == 1
Hostname(u) == IF u = NumCrawlUrls THEN "other" ELSE "base"
BaseDomain == Hostname(SeedUrl)

\* discoverUrls up to its loop (101-107): the seed is enqueued at depth 0 and
\* discovered. The engine's configuration is drawn here.
InitCrawl ==
  /\ auditUrlsPc = "notcalled"
  /\ pending = <<>>
  /\ runningTasks = 0
  /\ concurrentLimit = MaxConcurrent
  /\ auditResults = <<>>
  /\ successful = <<>>
  /\ failed = <<>>
  /\ requestCount = 0
  /\ browser = "null"
  /\ task = [u \in Urls |-> "idle"]
  /\ decs = [u \in Urls |-> 0]
  /\ stopPc = "idle"
  /\ keepWindowsOpen \in BOOLEAN
  /\ activePages = {}
  /\ progressCalls = <<>>
  /\ PageIdle("notcalled")
  /\ BaselineIdle
  /\ DetectorsIdle
  /\ crawlPc = "loop"
  /\ maxDepth \in 0..MaxDepthBound
  /\ maxUrls \in 1..MaxUrlsBound
  /\ followExternalLinks \in BOOLEAN
  /\ crawlQueue = <<[url |-> SeedUrl, depth |-> 0, parentDepth |-> -1]>>
  /\ discoveredUrls = {SeedUrl}
  /\ visitedUrls = {}
  /\ failedUrls = {}
  /\ cache = [u \in CrawlUrls |-> NoLinks]
  /\ cur = NoTask
  /\ crawlCtx = [u \in CrawlUrls |-> "none"]
  /\ crawlPg = [u \in CrawlUrls |-> "none"]
  /\ crawlActive = {}

\* A filter that lets every host through.
ShouldIncludeAnyHost(u) == u \in CrawlUrls

\* shouldIncludeUrl (438-482), its same-domain rule
ShouldIncludeUrl(u) == followExternalLinks \/ Hostname(u) = BaseDomain

\* The enqueue test with <= in place of <.
ShouldEnqueueInclusive(depth) == depth <= maxDepth

\* crawlPage's test before crawlQueue.add (321)
ShouldEnqueue(depth) == depth < maxDepth

RECURSIVE InOrder(_)
\* The members of a set of URLs as a list, in the order the page carries them.
InOrder(S) ==
  IF S = {} THEN <<>>
  ELSE LET m == CHOOSE x \in S : \A y \in S : x <= y
       IN <<m>> \o InOrder(S \ {m})

\* The tasks crawlPage's link loop (314-326) adds for the new links.
NewTasks(new, depth) ==
  IF ShouldEnqueue(depth)
    THEN [i \in 1..Len(InOrder(new)) |->
            [url |-> InOrder(new)[i], depth |-> depth + 1, parentDepth |-> depth]]
    ELSE <<>>

\* A link loop that enqueues the new links without recording them as
\* discovered.
ProcessLinksUnrecorded(url, depth, ls) ==
  LET new == {l \in ls : ShouldIncludeUrl(l)} \ discoveredUrls IN
  /\ discoveredUrls' = discoveredUrls
  /\ crawlQueue' = crawlQueue \o NewTasks(new, depth)

\* crawlPage's link loop (314-326), its success log and its finally block
\* (348-361) for the page (url, depth) carrying the links ls.
ProcessLinks(url, depth, ls) ==
  LET new == {l \in ls : ShouldIncludeUrl(l)} \ discoveredUrls IN
  /\ discoveredUrls' = discoveredUrls \cup new
  /\ crawlQueue' = crawlQueue \o NewTasks(new, depth)

\* The finally block of crawlPage (348-361)
CrawlFinally(url) ==
  IF ~keepWindowsOpen
    THEN /\ crawlPg' = [crawlPg EXCEPT ![url] = CloseIfSet(@)]
         /\ crawlCtx' = [crawlCtx EXCEPT ![url] = CloseIfSet(@)]
    ELSE UNCHANGED <<crawlPg, crawlCtx>>

\* One pass of discoverUrls' loop whose condition holds (109-121): a task is
\* dequeued; unless skipped, crawlPage starts: the URL is marked visited and,
\* on a cache miss, a context and page are opened (165-199).
CrawlDequeue ==
  /\ crawlPc = "loop"
  /\ Len(crawlQueue) > 0 /\ Cardinality(discoveredUrls) < maxUrls
  /\ LET t == Head(crawlQueue) IN
       IF t.url \in visitedUrls \/ t.depth > maxDepth
         THEN /\ crawlQueue' = Tail(crawlQueue)
              /\ UNCHANGED <<crawlPc, visitedUrls, cur, crawlCtx, crawlPg,
                             discoveredUrls>>
         ELSE /\ visitedUrls' = visitedUrls \cup {t.url}
              /\ IF cache[t.url] = NoLinks
                   THEN /\ crawlQueue' = Tail(crawlQueue)
                        /\ cur' = [url |-> t.url, depth |-> t.depth]
                        /\ crawlCtx' = [crawlCtx EXCEPT ![t.url] = "open"]
                        /\ crawlPg' = [crawlPg EXCEPT ![t.url] = "open"]
                        /\ crawlPc' = "goto"
                        /\ UNCHANGED discoveredUrls
                   ELSE /\ ProcessLinks(t.url, t.depth, cache[t.url])
                        /\ UNCHANGED <<crawlPc, cur, crawlCtx, crawlPg>>
  /\ UNCHANGED <<maxDepth, maxUrls, followExternalLinks, failedUrls, cache,
                 crawlActive>>
  /\ UNCHANGED <<auditVars, pageVars, baselineVars, detectorVars>>

\* A crawlPage without its outer catch block: the error rethrown at 311
\* leaves crawlPage and ends discoverUrls.
CrawlGotoRethrows ==
  /\ crawlPc = "goto"
  /\ CrawlFinally(cur.url)
  /\ crawlPc' = "thrown"
  /\ cur' = NoTask
  /\ UNCHANGED <<maxDepth, maxUrls, followExternalLinks, crawlQueue,
                 discoveredUrls, visitedUrls, failedUrls, cache, crawlActive>>
  /\ UNCHANGED <<auditVars, pageVars, baselineVars, detectorVars>>

\* page.goto in crawlPage (204-228) fails: it throws, resolves with no
\* response, or with a status >= 400. The inner catch block logs and throws
\* (267-312; the error it throws is the navigation error or, as
\* navigationStartTime is out of scope there, a ReferenceError), the outer
\* catch block adds the URL to failedUrls (333-347) and the finally block
\* runs.
CrawlGotoFails ==
  /\ crawlPc = "goto"
  /\ failedUrls' = failedUrls \cup {cur.url}
  /\ CrawlFinally(cur.url)
  /\ crawlPc' = "loop"
  /\ cur' = NoTask
  /\ UNCHANGED <<maxDepth, maxUrls, followExternalLinks, crawlQueue,
                 discoveredUrls, visitedUrls, cache, crawlActive>>
  /\ UNCHANGED <<auditVars, pageVars, baselineVars, detectorVars>>

\* page.goto in crawlPage resolves with a status below 400 (204-228).
CrawlGotoOk ==
  /\ crawlPc = "goto"
  /\ crawlPc' = "extract"
  /\ UNCHANGED <<maxDepth, maxUrls, followExternalLinks, crawlQueue,
                 discoveredUrls, visitedUrls, failedUrls, cache, cur,
                 crawlCtx, crawlPg, crawlActive>>
  /\ UNCHANGED <<auditVars, pageVars, baselineVars, detectorVars>>

\* The page has settled and extractLinks returns ls (230-264): the links are
\* memoized, the page is recorded when keepWindowsOpen, the link loop and the
\* finally block run.
CrawlExtract(ls) ==
  /\ crawlPc = "extract"
  /\ cache' = [cache EXCEPT ![cur.url] = ls]
  /\ crawlActive' = IF keepWindowsOpen THEN crawlActive \cup {cur.url}
                    ELSE crawlActive
  /\ ProcessLinks(cur.url, cur.depth, ls)
  /\ CrawlFinally(cur.url)
  /\ crawlPc' = "loop"
  /\ cur' = NoTask
  /\ UNCHANGED <<maxDepth, maxUrls, followExternalLinks, visitedUrls,
                 failedUrls>>
  /\ UNCHANGED <<auditVars, pageVars, baselineVars, detectorVars>>

\* discoverUrls' loop condition is false: the discovered URLs are returned
\* (124-145).
CrawlReturn ==
  /\ crawlPc = "loop"
  /\ ~(Len(crawlQueue) > 0 /\ Cardinality(discoveredUrls) < maxUrls)
  /\ crawlPc' = "returned"
  /\ UNCHANGED <<maxDepth, maxUrls, followExternalLinks, crawlQueue,
                 discoveredUrls, visitedUrls, failedUrls, cache, cur,
                 crawlCtx, crawlPg, crawlActive>>
  /\ UNCHANGED <<auditVars, pageVars, baselineVars, detectorVars>>

\* CrawlerEngine.cleanup (499-531): closes the pages of activePages, closes
\* the browser (and with it every context), empties queue and cache.
CrawlCleanup ==
  /\ crawlPc = "returned"
  /\ crawlPc' = "cleaned"
  /\ crawlActive' = {}
  /\ crawlCtx' = [u \in CrawlUrls |->
                    IF crawlCtx[u] = "open" THEN "closed" ELSE crawlCtx[u]]
  /\ crawlPg' = [u \in CrawlUrls |->
                   IF crawlPg[u] = "open" THEN "closed" ELSE crawlPg[u]]
  /\ crawlQueue' = <<>>
  /\ cache' = [u \in CrawlUrls |-> NoLinks]
  /\ UNCHANGED <<maxDepth, maxUrls, followExternalLinks, discoveredUrls,
                 visitedUrls, failedUrls, cur>>
  /\ UNCHANGED <<auditVars, pageVars, baselineVars, detectorVars>>

NextCrawl ==
  \/ CrawlDequeue
  \/ CrawlGotoFails
  \/ CrawlGotoOk
  \/ \E ls \in SUBSET CrawlUrls : CrawlExtract(ls)
  \/ CrawlReturn
  \/ CrawlCleanup

SpecCrawl == InitCrawl /\ [][NextCrawl]_vars

\* A run that exercises one of the two engines that open render contexts.
SpecContexts == (InitPage \/ InitCrawl) /\ [][NextPage \/ NextCrawl]_vars

(***************************************************************************)
(* The detectors' baseline files: HTMLStructureAuditor.audit and            *)
(* createBaseline, VisualRegressionAuditor.captureFullPage/captureElement  *)
(* and createBaseline, baseline-manager's clear commands                    *)
(***************************************************************************)

InitBaseline ==
  /\ auditUrlsPc = "notcalled"
  /\ pending = <<>>
  /\ runningTasks = 0
  /\ concurrentLimit = MaxConcurrent
  /\ auditResults = <<>>
  /\ successful = <<>>
  /\ failed = <<>>
  /\ requestCount = 0
  /\ browser = "null"
  /\ task = [u \in Urls |-> "idle"]
  /\ decs = [u \in Urls |-> 0]
  /\ stopPc = "idle"
  /\ keepWindowsOpen = FALSE
  /\ activePages = {}
  /\ progressCalls = <<>>
  /\ PageIdle("notcalled")
  /\ CrawlIdle
  /\ DetectorsIdle

\* audit(page, url) is called and has extracted the page's current content
\* (35-49; 521-542): next it asks whether the baseline file exists.
BeginAudit(c, k, content) ==
  /\ call[c].pc = "idle"
  /\ call' = [call EXCEPT ![c] =
                [pc |-> "pathExists", key |-> k, content |-> content,
                 explicit |-> FALSE]]
  /\ UNCHANGED <<baselineFile, autoWrites>>
  /\ UNCHANGED <<auditVars, pageVars, crawlVars, detectorVars>>

\* createBaseline(page, url) (672-684; 759-772): the operator's command
\* removes the stored baseline, then runs audit.
CreateBaseline(c, k, content) ==
  /\ call[c].pc = "idle"
  /\ baselineFile' = [baselineFile EXCEPT ![k] = 0]
  /\ autoWrites' = [autoWrites EXCEPT ![k] = 0]
  /\ call' = [call EXCEPT ![c] =
                [pc |-> "pathExists", key |-> k, content |-> content,
                 explicit |-> TRUE]]
  /\ UNCHANGED <<auditVars, pageVars, crawlVars, detectorVars>>

\* await fs.pathExists(baselineFile) resolves (51; 544; 593)
PathExists(c) ==
  /\ call[c].pc = "pathExists"
  /\ call' = [call EXCEPT ![c].pc =
                IF baselineFile[call[c].key] # 0 THEN "compare" ELSE "write"]
  /\ UNCHANGED <<baselineFile, autoWrites>>
  /\ UNCHANGED <<auditVars, pageVars, crawlVars, detectorVars>>

\* The baseline exists: it is read and compared, never written (52-92;
\* 545-558; 594-607).
CompareWithBaseline(c) ==
  /\ call[c].pc = "compare"
  /\ call' = [call EXCEPT ![c].pc = "done"]
  /\ UNCHANGED <<baselineFile, autoWrites>>
  /\ UNCHANGED <<auditVars, pageVars, crawlVars, detectorVars>>

\* No baseline was seen: the current content is stored as the baseline
\* (94-104; 560-561; 609).
WriteBaseline(c) ==
  /\ call[c].pc = "write"
  /\ baselineFile' = [baselineFile EXCEPT ![call[c].key] = call[c].content]
  /\ autoWrites' = [autoWrites EXCEPT ![call[c].key] =
                      IF call[c].explicit THEN @ ELSE @ + 1]
  /\ call' = [call EXCEPT ![c].pc = "done"]
  /\ UNCHANGED <<auditVars, pageVars, crawlVars, detectorVars>>

\* baseline-manager clear (39-55): the baseline directory is removed.
ClearBaselines ==
  /\ \E k \in Keys : baselineFile[k] # 0
  /\ baselineFile' = [k \in Keys |-> 0]
  /\ autoWrites' = [k \in Keys |-> 0]
  /\ UNCHANGED call
  /\ UNCHANGED <<auditVars, pageVars, crawlVars, detectorVars>>

NextBaseline ==
  \/ \E c \in Calls, k \in Keys, content \in Contents : BeginAudit(c, k, content)
  \/ \E c \in Calls, k \in Keys, content \in Contents : CreateBaseline(c, k, content)
  \/ \E c \in Calls : PathExists(c)
  \/ \E c \in Calls : CompareWithBaseline(c)
  \/ \E c \in Calls : WriteBaseline(c)
  \/ ClearBaselines

SpecBaseline == InitBaseline /\ [][NextBaseline]_vars

(***************************************************************************)
(* Claims about the dispatcher                                            *)
(***************************************************************************)

\* Tasks started by auditUrls whose completion handler has not run yet.
InFlight == {u \in Urls : task[u] \in {"applyRateLimit", "auditing"}}

\* C1: while auditUrls runs, the number of audit tasks started and not yet
\* completed is at most concurrentLimit, whatever the interleaving of task
\* starts, completions, adjustConcurrency and emergencyStop.
C1_InFlightWithinLimit ==
  auditUrlsPc = "loop" => Cardinality(InFlight) <= concurrentLimit

\* Number of entries of auditResults for URL u.
ResultsFor(u) ==
  Cardinality({i \in 1..Len(auditResults) : auditResults[i].url = u})

\* C3: when auditUrls returns, the result list holds exactly one AuditResult
\* for every submitted URL.
C3_OneResultPerUrl ==
  auditUrlsPc = "returned" =>
    /\ Len(auditResults) = NumUrls
    /\ \A u \in Urls : ResultsFor(u) = 1

\* C7: a completed task has decremented runningTasks exactly once, on every
\* completion path.
C7_DecrementedOnce ==
  \A u \in Urls : task[u] = "done" => decs[u] = 1

(***************************************************************************)
(* Claims about auditSingleUrl                                             *)
(***************************************************************************)

\* The engine's browser was never closed during the call.
BrowserUp == browser = "open" /\ stopPc = "idle"

\* State part of C2.
C2_State ==
  /\ rateLimitRetries <= MaxRateLimitRetries
  /\ only429 => gotos <= MaxRateLimitRetries + 1
  /\ (pagePc = "done" /\ only429 /\ BrowserUp) =>
       /\ gotos = MaxRateLimitRetries + 1
       /\ pageResult = AuditResult(PageUrl, FALSE, 429)

\* C2: for a URL whose every navigation answers 429, auditSingleUrl and
\* handleRateLimit make the initial navigation plus exactly 3 retry
\* navigations, the URL's retry count never exceeds 3, the task yields a
\* failed AuditResult with statusCode 429, and no navigation of the URL is
\* made after that.
C2_RateLimitExhaustion ==
  /\ []C2_State
  /\ [][pagePc = "done" => gotos' = gotos]_vars

\* C2 witness: the task ended after four navigations that all answered 429.
C2_Witness ==
  /\ pagePc = "done" /\ only429 /\ BrowserUp
  /\ gotos = 4 /\ rateLimitRetries = 3 /\ level = 0
  /\ pageResult.statusCode = 429 /\ ~pageResult.success

\* Plugin p lost its race to the timer while every other plugin's audit
\* returned in time.
OnlySlow(p) ==
  /\ wrapper[p] = "timeout"
  /\ \A q \in Plugins \ {p} : wrapper[q] = "ok"

\* State part of C4.
C4_State ==
  \A p \in Plugins :
    (compiled.set /\ OnlySlow(p)) =>
      /\ compiled.named = Plugins \ {p}
      /\ compiled.issues = <<[type |-> "audit_failure", auditor |-> p]>>
      /\ pageResult.success

\* A timeout of plugin p leaves every other plugin's audit call and recorded
\* outcome as they were.
C4_Step ==
  \A p \in Plugins :
    (wrapper[p] = "pending" /\ wrapper'[p] = "timeout") =>
      \A q \in Plugins \ {p} :
        wrapper'[q] = wrapper[q] /\ auditCall'[q] = auditCall[q]

\* C4: if one of N plugins times out while the other N-1 finish in time, the
\* compiled result holds the N-1 results under their names and exactly one
\* audit_failure issue naming the slow plugin, the page result is success,
\* and the timeout changes nothing about the siblings.
C4_TimeoutIsolation == []C4_State /\ [][C4_Step]_vars

\* C4 witness: the page was compiled with plugin 1 timed out, still running,
\* and its siblings recorded.
C4_Witness ==
  /\ pagePc = "done" /\ compiled.set /\ OnlySlow(1)
  /\ auditCall[1] = "running"
  /\ pageResult.success

(***************************************************************************)
(* Claims about the crawler                                                *)
(***************************************************************************)

\* C5: during discoverUrls and in its result, the number of discovered URLs
\* is at most maxUrls.
C5_DiscoveredWithinMaxUrls ==
  crawlPc # "notcalled" => Cardinality(discoveredUrls) <= maxUrls

\* C6: every task on the crawl queue has depth <= maxDepth; the seed is
\* enqueued at depth 0 and every other task one deeper than the task on
\* whose page its link was found.
C6_QueueDepths ==
  \A i \in 1..Len(crawlQueue) :
    LET t == crawlQueue[i] IN
      /\ t.depth <= maxDepth
      /\ t.depth = t.parentDepth + 1
      /\ (t.url = SeedUrl <=> t.depth = 0)

\* C6 witness: a task waits at the deepest level allowed while a page of
\* that level has been crawled.
C6_Witness ==
  /\ crawlPc = "loop"
  /\ maxDepth = 2
  /\ \E i \in 1..Len(crawlQueue) : crawlQueue[i].depth = maxDepth
  /\ Cardinality(visitedUrls) = 2

(***************************************************************************)
(* Claims about render contexts                                            *)
(***************************************************************************)

\* The auditSingleUrl call of nesting depth l has returned.
Returned(l) == pagePc = "done" \/ (l > level /\ ctx[l] # "none")

\* No crawlPage call is in progress.
OutsideCrawlPage == crawlPc \in {"loop", "returned", "cleaned"}

\* C8: with keepWindowsOpen off, the context and page opened by an
\* auditSingleUrl call (each nested retry call included) or by crawlPage are
\* closed when that call has returned.
C8_ContextsClosed ==
  ~keepWindowsOpen =>
    /\ \A l \in Levels : Returned(l) => (ctx[l] # "open" /\ pg[l] # "open")
    /\ OutsideCrawlPage =>
         \A u \in CrawlUrls : crawlCtx[u] # "open" /\ crawlPg[u] # "open"

\* C8 witness: a task that was rate limited once, then failed on an HTTP
\* error in the retry, has returned with both its contexts closed by itself.
C8_Witness ==
  /\ ~keepWindowsOpen /\ BrowserUp
  /\ pagePc = "done" /\ ~pageResult.success /\ pageResult.statusCode = 0
  /\ ctx[0] = "closed" /\ pg[0] = "closed"
  /\ ctx[1] = "closed" /\ pg[1] = "closed"

\* C9: with keepWindowsOpen on, every context a task opened and has not
\* closed is recorded in activePages when the task ends, and after cleanup()
\* no context remains open.
C9_OpenContextsRecorded ==
  keepWindowsOpen =>
    /\ pagePc = "done" =>
         \A l \in Levels : ctx[l] = "open" => activeEntry = l
    /\ OutsideCrawlPage =>
         \A u \in CrawlUrls : crawlCtx[u] = "open" => u \in crawlActive
    /\ (pagePc = "done" /\ browser = "null") =>
         \A l \in Levels : ctx[l] # "open"
    /\ crawlPc = "cleaned" => \A u \in CrawlUrls : crawlCtx[u] # "open"

(***************************************************************************)
(* Claims about the baseline store                                         *)
(***************************************************************************)

\* C10: per baseline key, audits write the baseline automatically at most
\* once, and an audit never writes over a baseline that exists; only the
\* operator's createBaseline and clear remove or replace one.
C10_BaselineWrittenOnce ==
  /\ \A k \in Keys : autoWrites[k] <= 1
  /\ \A c \in Calls :
       (call[c].pc = "write" /\ ~call[c].explicit) =>
         baselineFile[call[c].key] = 0

(***************************************************************************)
(* HTMLStructureAuditor: extractStructure, extractStyling, compareHeadings, *)
(* compareMetaTags, compareStyling, processStructureChanges,                *)
(* processStylingChanges, calculateStructureScore                           *)
(*                                                                         *)
(* A page is <body><div> h1..h6 elements </div></body> plus at most one    *)
(* description meta tag.  A selector is the sequence of its parts.          *)
(***************************************************************************)

\* querySelectorAll("h1, h2, h3, h4, h5, h6") (200)
HeadingLevels == 1..6

\* heading.tagName.toLowerCase() and `H${level}`
TagName(l) == <<"h1", "h2", "h3", "h4", "h5", "h6">>[l]
HeadingName(l) == <<"H1", "H2", "H3", "H4", "H5", "H6">>[l]

\* `${n}` for the small numbers a selector carries
Digits(n) == <<"1", "2", "3", "4", "5", "6", "7", "8", "9">>[n]

\* String.prototype.includes on selectors
Includes(s, t) ==
  \E i \in 1..(Len(s) - Len(t) + 1) : SubSeq(s, i, i + Len(t) - 1) = t

\* getElementSelector (170-192) for heading i of the page: its id if it has
\* one, else its tag under the parent div, the div carrying :nth-child(k)
\* when the heading has siblings of its own tag.
GetElementSelector(page, i) ==
  LET h == page.headings[i]
      siblings == {j \in 1..Len(page.headings) :
                     page.headings[j].level = h.level}
      k == Cardinality({j \in siblings : j <= i})
  IN IF h.id THEN <<"#", "hero", Digits(i)>>
     ELSE IF Cardinality(siblings) > 1
       THEN <<"div", ":nth-child(", Digits(k), ")", " > ", TagName(h.level)>>
       ELSE <<"div", " > ", TagName(h.level)>>

\* extractStructure (127-250): headings in document order, the meta tags
ExtractStructure(page) ==
  [title |-> page.title,
   headings |-> [i \in 1..Len(page.headings) |->
                   [level |-> page.headings[i].level,
                    text |-> page.headings[i].text,
                    selector |-> GetElementSelector(page, i),
                    index |-> i - 1]],
   metaTags |-> IF page.description = 0 THEN <<>>
                ELSE <<[name |-> "description", content |-> page.description]>>]

\* extractStyling's key for the heading at querySelectorAll index i-1 (258-260)
StyleKey(page, i) ==
  IF i - 1 > 0
    THEN <<TagName(page.headings[i].level), ":nth-of-type(", Digits(i), ")">>
    ELSE <<TagName(page.headings[i].level)>>

\* extractStyling (252-303): computed styles by key, in insertion order
ExtractStyling(page) ==
  [i \in 1..Len(page.headings) |->
     [selector |-> StyleKey(page, i),
      fontSize |-> page.headings[i].fontSize,
      fontWeight |-> page.headings[i].fontWeight]]

\* An assessment that calls a demotion of the H1 by one level a warning.
AssessImpactLenient(fromLevel, toLevel) ==
  IF fromLevel = 1 /\ toLevel > 2 THEN "critical"
  ELSE IF fromLevel < toLevel THEN "warning"
  ELSE IF fromLevel > toLevel THEN "improvement"
  ELSE "neutral"

\* assessHierarchyImpact (533-542)
AssessHierarchyImpact(fromLevel, toLevel) ==
  IF fromLevel = 1 /\ toLevel > 1 THEN "critical"
  ELSE IF fromLevel < toLevel THEN "warning"
  ELSE IF fromLevel > toLevel THEN "improvement"
  ELSE "neutral"

\* compareHeadings (327-374)
CompareHeadings(baselineHeadings, currentHeadings) ==
  LET Entry(i) ==
        IF i > Len(currentHeadings)
          THEN [kind |-> "removed", heading |-> baselineHeadings[i]]
        ELSE IF baselineHeadings[i].level # currentHeadings[i].level
          THEN [kind |-> "hierarchy",
                change |->
                  [index |-> i - 1,
                   from |-> HeadingName(baselineHeadings[i].level),
                   to |-> HeadingName(currentHeadings[i].level),
                   text |-> currentHeadings[i].text,
                   selector |-> currentHeadings[i].selector,
                   impact |-> AssessHierarchyImpact(baselineHeadings[i].level,
                                                    currentHeadings[i].level)]]
        ELSE IF baselineHeadings[i].text # currentHeadings[i].text
          THEN [kind |-> "modified",
                change |->
                  [index |-> i - 1,
                   level |-> currentHeadings[i].level,
                   from |-> baselineHeadings[i].text,
                   to |-> currentHeadings[i].text,
                   selector |-> currentHeadings[i].selector]]
        ELSE [kind |-> "same"]
      entries == [i \in 1..Len(baselineHeadings) |-> Entry(i)]
      IsRemoved(e) == e.kind = "removed"
      IsHierarchy(e) == e.kind = "hierarchy"
      IsModified(e) == e.kind = "modified"
      Heading(e) == e.heading
      Change(e) == e.change
      added == IF Len(currentHeadings) > Len(baselineHeadings)
                 THEN SubSeq(currentHeadings, Len(baselineHeadings) + 1,
                             Len(currentHeadings))
                 ELSE <<>>
  IN [hasChanges |-> \/ \E i \in 1..Len(entries) : entries[i].kind # "same"
                     \/ added # <<>>,
      added |-> added,
      removed |-> (LET kept == SelectSeq(entries, IsRemoved)
                   IN [k \in 1..Len(kept) |-> Heading(kept[k])]),
      modified |-> (LET kept == SelectSeq(entries, IsModified)
                    IN [k \in 1..Len(kept) |-> Change(kept[k])]),
      hierarchyChanges |-> (LET kept == SelectSeq(entries, IsHierarchy)
                            IN [k \in 1..Len(kept) |-> Change(kept[k])])]

\* compareMetaTags (376-414) for the one tag name the page may carry
CompareMetaTags(baselineMeta, currentMeta) ==
  LET removed == IF baselineMeta # <<>> /\ currentMeta = <<>>
                   THEN baselineMeta ELSE <<>>
      modified == IF /\ baselineMeta # <<>> /\ currentMeta # <<>>
                     /\ baselineMeta[1].content # currentMeta[1].content
                    THEN <<[name |-> "description",
                            from |-> baselineMeta[1].content,
                            to |-> currentMeta[1].content]>>
                    ELSE <<>>
      added == IF baselineMeta = <<>> /\ currentMeta # <<>>
                 THEN currentMeta ELSE <<>>
  IN [hasChanges |-> removed # <<>> \/ modified # <<>> \/ added # <<>>,
      added |-> added, removed |-> removed, modified |-> modified]

\* A comparison of per-selector match counts in place of match lists: a
\* selector that matches nothing counts as removed.
CompareImportantElementsByCount(baseline, current) ==
  LET Count(s, l) == Cardinality({i \in 1..Len(s.headings) :
                                    s.headings[i].level = l})
  IN [hasChanges |->
        \/ \E l \in HeadingLevels :
             Count(baseline, l) # Count(current, l) \/ Count(current, l) = 0
        \/ Len(baseline.metaTags) # Len(current.metaTags)]

\* compareImportantElements (416-455) over the selectors the page can match:
\* h1..h6 and meta[name="description"]; a selector's entry changes when the
\* number of elements it matches does.
CompareImportantElements(baseline, current) ==
  LET Count(s, l) == Cardinality({i \in 1..Len(s.headings) :
                                    s.headings[i].level = l})
  IN [hasChanges |->
        \/ \E l \in HeadingLevels : Count(baseline, l) # Count(current, l)
        \/ Len(baseline.metaTags) # Len(current.metaTags)]

\* compareStructures (305-325)
CompareStructures(baseline, current) ==
  LET titleChanged == baseline.title # current.title
      headingChanges == CompareHeadings(baseline.headings, current.headings)
      metaTagChanges == CompareMetaTags(baseline.metaTags, current.metaTags)
      elementChanges == CompareImportantElements(baseline, current)
  IN [hasChanges |-> \/ titleChanged
                     \/ headingChanges.hasChanges
                     \/ metaTagChanges.hasChanges
                     \/ elementChanges.hasChanges,
      titleChanged |-> titleChanged,
      headingChanges |-> headingChanges,
      metaTagChanges |-> metaTagChanges,
      elementChanges |-> elementChanges]

RECURSIVE Pow2Mod(_, _)
\* 2^k modulo m
Pow2Mod(k, m) == IF k = 0 THEN 1 % m ELSE (2 * Pow2Mod(k - 1, m)) % m

RECURSIVE BinadeFrom(_, _)
\* The largest E >= e with 2^E <= tenths / 10
BinadeFrom(tenths, e) ==
  IF 10 * 2^(e + 1) <= tenths THEN BinadeFrom(tenths, e + 1) ELSE e

\* fromPx * 1.2 against the double nearest to that same decimal value y, for
\* fromPx = f whole pixels. 1.2 is stored as the double 0.2 * 2^-52 below
\* it, so the exact product is y - 2f/10 * 2^-52 and is rounded to 53 bits
\* (ties to even). With E the binade of y, u = 2^(E-52) its grid step and g
\* the double just below or at y, positions are counted from g in units of
\* u / (10 * 2^E): y lies r * 2^E units above g, r being the tenths of u
\* left by y / u. TRUE iff the double of y is greater than the product.
DecimalAboveProduct(f) ==
  LET E == BinadeFrom(12 * f, 0)
      q == (12 * f * Pow2Mod(52 - E, 20)) % 20
      r == q % 10
      gOdd == ((q - r) \div 10) % 2 = 1
      step == 10 * 2^E
      product == r * 2^E - 2 * f
      roundedDecimal == IF r >= 5 THEN 1 ELSE 0
      roundedProduct == IF 2 * product < step THEN 0
                        ELSE IF 2 * product > step THEN 1
                        ELSE IF gOdd THEN 1 ELSE 0
  IN roundedDecimal > roundedProduct

\* isSignificantFontSizeIncrease (520-524): parseFloat(to) >
\* parseFloat(from) * 1.2 in double arithmetic. Sizes are in tenths of a
\* pixel, from a whole number of pixels (>= 1px). Away from
\* to = 1.2 * from the rounding errors (below 2^-52 of the values) cannot
\* change the comparison of two decimals that differ by 0.1px or more.
IsSignificantFontSizeIncrease(from, to) ==
  IF 10 * to # 12 * from THEN 10 * to > 12 * from
  ELSE DecimalAboveProduct(from \div 10)

\* isWeightIncrease (526-531)
WeightOf(w) ==
  CASE w = "normal" -> 400
    [] w = "bold" -> 700
    [] w = "400" -> 400
    [] w = "700" -> 700
    [] w = "600" -> 600
    [] OTHER -> 400

IsWeightIncrease(from, to) == WeightOf(to) > WeightOf(from)

\* isSuspiciousStyling (500-518); selector.match(/^h[2-6]/)
IsSuspiciousStyling(selector, styleChanges) ==
  /\ selector[1] \in {TagName(l) : l \in 2..6}
  /\ \/ /\ styleChanges.fontSize.changed
        /\ IsSignificantFontSizeIncrease(styleChanges.fontSize.from,
                                         styleChanges.fontSize.to)
     \/ /\ styleChanges.fontWeight.changed
        /\ IsWeightIncrease(styleChanges.fontWeight.from,
                            styleChanges.fontWeight.to)

\* compareStyling (457-498): every baseline key that the current snapshot
\* also has is compared property by property.
CompareStyling(baselineStyling, currentStyling) ==
  LET Current(sel) ==
        {j \in 1..Len(currentStyling) : currentStyling[j].selector = sel}
      SelectorChanges(b, c) ==
        [fontSize |-> [changed |-> b.fontSize # c.fontSize,
                       from |-> b.fontSize, to |-> c.fontSize],
         fontWeight |-> [changed |-> b.fontWeight # c.fontWeight,
                         from |-> b.fontWeight, to |-> c.fontWeight]]
      Entry(i) ==
        LET b == baselineStyling[i] IN
        IF Current(b.selector) = {} THEN [hasChanges |-> FALSE]
        ELSE LET c == currentStyling[CHOOSE j \in Current(b.selector) : TRUE]
                 ch == SelectorChanges(b, c)
             IN [hasChanges |-> ch.fontSize.changed \/ ch.fontWeight.changed,
                 selector |-> b.selector,
                 changes |-> ch]
      entries == [i \in 1..Len(baselineStyling) |-> Entry(i)]
      Changed(e) == e.hasChanges
      Suspicious(e) == e.hasChanges /\ IsSuspiciousStyling(e.selector, e.changes)
      StyleChange(e) == [selector |-> e.selector, changes |-> e.changes]
      SuspiciousChange(e) == [selector |-> e.selector,
                              reason |-> "heading_impersonation",
                              changes |-> e.changes]
      suspiciousChanges == (LET kept == SelectSeq(entries, Suspicious)
                            IN [k \in 1..Len(kept) |-> SuspiciousChange(kept[k])])
  IN [hasCompensation |-> suspiciousChanges # <<>>,
      styleChanges |-> (LET kept == SelectSeq(entries, Changed)
                        IN [k \in 1..Len(kept) |-> StyleChange(kept[k])]),
      suspiciousChanges |-> suspiciousChanges]

\* processStructureChanges (544-600): what it pushes on issues and warnings
StructureIssues(comparison) ==
  LET Critical(c) == c.impact = "critical"
      Error(c) == [type |-> "critical_heading_change", severity |-> "error",
                   details |-> c]
      Description(m) == m.name = "description"
      Removed(m) == [type |-> "meta_description_removed",
                     severity |-> "error", details |-> m]
  IN (LET kept == SelectSeq(comparison.headingChanges.hierarchyChanges,
                         Critical)
      IN [k \in 1..Len(kept) |-> Error(kept[k])])
       \o (LET kept == SelectSeq(comparison.metaTagChanges.removed,
                              Description)
           IN [k \in 1..Len(kept) |-> Removed(kept[k])])

StructureWarnings(comparison) ==
  LET Degraded(c) == c.impact = "warning"
      Warning(c) == [type |-> "heading_hierarchy_degraded",
                     severity |-> "warning", details |-> c]
      Description(m) == m.name = "description"
      Modified(m) == [type |-> "meta_description_changed",
                      severity |-> "warning", details |-> m]
  IN (IF comparison.titleChanged
        THEN <<[type |-> "title_changed", severity |-> "warning",
                details |-> "title change detected"]>>
        ELSE <<>>)
       \o (LET kept == SelectSeq(comparison.headingChanges.hierarchyChanges,
                              Degraded)
           IN [k \in 1..Len(kept) |-> Warning(kept[k])])
       \o (LET kept == SelectSeq(comparison.metaTagChanges.modified,
                              Description)
           IN [k \in 1..Len(kept) |-> Modified(kept[k])])

\* A correlation step that takes the first hierarchy change, whatever its
\* selector.
StylingOutputsAnyChange(stylingComparison, structureComparison) ==
  LET hcs == structureComparison.headingChanges.hierarchyChanges
      Output(change) ==
        IF hcs # <<>>
          THEN [type |-> "seo_manipulation_detected",
                severity |-> "error",
                details |-> [structuralChange |-> hcs[1],
                             stylingChange |-> change]]
          ELSE [type |-> "suspicious_styling", severity |-> "warning",
                details |-> change]
  IN IF stylingComparison.hasCompensation
       THEN [i \in 1..Len(stylingComparison.suspiciousChanges) |->
               Output(stylingComparison.suspiciousChanges[i])]
       ELSE <<>>

\* processStylingChanges (602-638): per suspicious change, in order, what is
\* pushed: an error on issues or a warning on warnings.
StylingOutputs(stylingComparison, structureComparison) ==
  LET hcs == structureComparison.headingChanges.hierarchyChanges
      Matching(change) ==
        {k \in 1..Len(hcs) : Includes(hcs[k].selector, change.selector)}
      Output(change) ==
        IF Matching(change) # {}
          THEN LET k == CHOOSE k \in Matching(change) :
                          \A m \in Matching(change) : k <= m
               IN [type |-> "seo_manipulation_detected",
                   severity |-> "error",
                   details |-> [structuralChange |-> hcs[k],
                                stylingChange |-> change]]
          ELSE [type |-> "suspicious_styling", severity |-> "warning",
                details |-> change]
  IN IF stylingComparison.hasCompensation
       THEN [i \in 1..Len(stylingComparison.suspiciousChanges) |->
               Output(stylingComparison.suspiciousChanges[i])]
       ELSE <<>>

IsError(o) == o.severity = "error"
IsWarning(o) == o.severity = "warning"
Same(o) == o

\* calculateStructureScore (640-666); every term is a whole number
CalculateStructureScore(structureComparison, stylingComparison) ==
  LET hcs == structureComparison.headingChanges.hierarchyChanges
      Critical(c) == c.impact = "critical"
      Degraded(c) == c.impact = "warning"
      structural ==
        IF structureComparison.hasChanges
          THEN Len(SelectSeq(hcs, Critical)) * 30
               + Len(SelectSeq(hcs, Degraded)) * 15
               + Len(structureComparison.headingChanges.removed) * 10
               + Len(structureComparison.metaTagChanges.removed) * 20
               + Len(structureComparison.metaTagChanges.modified) * 5
          ELSE 0
      styling ==
        IF stylingComparison.hasCompensation
          THEN Len(stylingComparison.suspiciousChanges) * 25
          ELSE 0
  IN Max(0, 100 - structural - styling)

\* What audit writes to the baseline file (94-104) with styleAnalysis on
Snapshot(page) ==
  [structure |-> ExtractStructure(page), styling |-> ExtractStyling(page)]

\* audit (35-125) when the baseline file exists and styleAnalysis is on:
\* the content read from the file against the current page.
CompareWithSnapshot(baseline, curPage) ==
  LET currentStructure == ExtractStructure(curPage)
      currentStyling == ExtractStyling(curPage)
      structureComparison ==
        CompareStructures(baseline.structure, currentStructure)
      stylingComparison == CompareStyling(baseline.styling, currentStyling)
      outputs == StylingOutputs(stylingComparison, structureComparison)
  IN [structureComparison |-> structureComparison,
      stylingComparison |-> stylingComparison,
      issues |-> StructureIssues(structureComparison)
                   \o (LET kept == SelectSeq(outputs, IsError)
                       IN [k \in 1..Len(kept) |-> Same(kept[k])]),
      warnings |-> StructureWarnings(structureComparison)
                     \o (LET kept == SelectSeq(outputs, IsWarning)
                         IN [k \in 1..Len(kept) |-> Same(kept[k])]),
      score |-> CalculateStructureScore(structureComparison,
                                        stylingComparison)]

\* The audit of curPage against the snapshot taken of basePage
HtmlAuditResult(basePage, curPage) ==
  CompareWithSnapshot(Snapshot(basePage), curPage)

\* detectH1toH3Manipulation (3-42) for one audit result
DetectH1toH3Manipulation(htmlStructure) ==
  LET stylingChanges == htmlStructure.stylingComparison.suspiciousChanges
      H1ToH3(c) == c.from = "H1" /\ c.to = "H3"
      Compensating ==
        {k \in 1..Len(stylingChanges) :
           /\ Includes(stylingChanges[k].selector, <<"h3">>)
           /\ stylingChanges[k].reason = "heading_impersonation"}
      Manipulation(c) ==
        [type |-> "h1_to_h3_with_styling",
         structuralChange |-> c,
         hasCompensation |-> Compensating # {},
         severity |-> IF Compensating # {} THEN "CRITICAL" ELSE "HIGH"]
  IN (LET kept == SelectSeq(htmlStructure.structureComparison.headingChanges.hierarchyChanges,
                         H1ToH3)
      IN [k \in 1..Len(kept) |-> Manipulation(kept[k])])

\* detectAllHeadingManipulations (44-82) for one audit result
DetectAllHeadingManipulations(htmlStructure) ==
  LET stylingChanges == htmlStructure.stylingComparison.suspiciousChanges
      Relevant(c) == c.impact = "critical" \/ c.impact = "warning"
      ToLowerCase(name) == TagName(CHOOSE l \in HeadingLevels :
                                     HeadingName(l) = name)
      Manipulation(c) ==
        [type |-> "heading_hierarchy_change",
         structuralChange |-> c,
         hasCompensation |->
           \E k \in 1..Len(stylingChanges) :
             Includes(stylingChanges[k].selector, <<ToLowerCase(c.to)>>),
         severity |-> IF c.impact = "critical" THEN "CRITICAL" ELSE "HIGH"]
  IN (LET kept == SelectSeq(htmlStructure.structureComparison.headingChanges.hierarchyChanges,
                         Relevant)
      IN [k \in 1..Len(kept) |-> Manipulation(kept[k])])

\* audit(page, url) compares the page with its stored baseline
StructureAudit ==
  /\ htmlPc = "ready"
  /\ htmlAudit' = HtmlAuditResult(baselinePage, currentPage)
  /\ htmlPc' = "audited"
  /\ UNCHANGED <<baselinePage, currentPage, manipulationReport>>
  /\ UNCHANGED <<auditVars, pageVars, crawlVars, baselineVars, visualVars,
                 resolverVars,
                 storeVars,
                 landingVars,
                 pluginVars,
                 backoffVars,
                 limiterVars>>

\* generateManipulationReport (110-119) over the audit's result
ReportManipulations ==
  /\ htmlPc = "audited"
  /\ manipulationReport' =
       [h1ToH3Manipulations |-> DetectH1toH3Manipulation(htmlAudit),
        allHeadingManipulations |-> DetectAllHeadingManipulations(htmlAudit)]
  /\ htmlPc' = "reported"
  /\ UNCHANGED <<baselinePage, currentPage, htmlAudit>>
  /\ UNCHANGED <<auditVars, pageVars, crawlVars, baselineVars, visualVars,
                 resolverVars,
                 storeVars,
                 landingVars,
                 pluginVars,
                 backoffVars,
                 limiterVars>>

\* Sequences of at most n elements of S
SeqsUpTo(S, n) == UNION {[1..k -> S] : k \in 0..n}

Texts == {"A", "B"}

\* Pages whose headings differ in level and text only
PlainHeadings(texts) ==
  [level : HeadingLevels, text : texts, id : {FALSE},
   fontSize : {160}, fontWeight : {"400"}]

InitHeadings ==
  /\ EnginesIdle /\ VisualIdle /\ ResolverIdle /\ StoreIdle /\ LandingIdle /\ LimiterIdle
  /\ BackoffIdle /\ PluginsIdle
  /\ htmlPc = "ready"
  /\ baselinePage \in [title : {"T"}, description : {1},
                       headings : SeqsUpTo(PlainHeadings({"A"}), MaxHeadings)]
  /\ currentPage \in [title : {"T"}, description : {1},
                      headings : SeqsUpTo(PlainHeadings(Texts), MaxHeadings)]
  /\ htmlAudit = "none"
  /\ manipulationReport = "none"

NextHeadings == StructureAudit

SpecHeadings == InitHeadings /\ [][NextHeadings]_vars

\* Pages whose headings carry ids and restyled text; levels h1..h3
StyledLevels == 1..3

BaselineHeadings ==
  [level : StyledLevels, text : {"A"}, id : {FALSE},
   fontSize : {160}, fontWeight : {"400"}]

RestyledHeadings ==
  {h \in [level : StyledLevels, text : {"A"}, id : BOOLEAN,
          fontSize : {160, 200}, fontWeight : {"400", "bold"}] :
     ~(h.fontSize = 200 /\ h.fontWeight = "bold")}

InitStructure ==
  /\ EnginesIdle /\ VisualIdle /\ ResolverIdle /\ StoreIdle /\ LandingIdle /\ LimiterIdle
  /\ BackoffIdle /\ PluginsIdle
  /\ htmlPc = "ready"
  /\ baselinePage \in [title : {"T"}, description : {1},
                       headings : SeqsUpTo(BaselineHeadings, MaxHeadings)]
  /\ currentPage \in [title : {"T"}, description : {0, 1, 2},
                      headings : SeqsUpTo(RestyledHeadings, MaxHeadings)]
  /\ htmlAudit = "none"
  /\ manipulationReport = "none"

NextStructure == StructureAudit \/ ReportManipulations

SpecStructure == InitStructure /\ [][NextStructure]_vars

\* Pages whose headings carry ids and enlarged text
EnlargedHeadings ==
  [level : StyledLevels, text : {"A"}, id : BOOLEAN,
   fontSize : {160, 200}, fontWeight : {"400"}]

InitStyling ==
  /\ EnginesIdle /\ VisualIdle /\ ResolverIdle /\ StoreIdle /\ LandingIdle /\ LimiterIdle
  /\ BackoffIdle /\ PluginsIdle
  /\ htmlPc = "ready"
  /\ baselinePage \in [title : {"T"}, description : {1},
                       headings : SeqsUpTo(BaselineHeadings, MaxHeadings)]
  /\ currentPage \in [title : {"T"}, description : {1},
                      headings : SeqsUpTo(EnlargedHeadings, MaxHeadings)]
  /\ htmlAudit = "none"
  /\ manipulationReport = "none"

NextStyling == StructureAudit

SpecStyling == InitStyling /\ [][NextStyling]_vars

\* One heading whose computed style changes between the two snapshots:
\* sizes in tenths of a pixel, weights as getComputedStyle or a style sheet
\* spell them.
BaselineSizes == {100, 120, 160}
CurrentSizes == {100, 120, 144, 145, 160, 192, 193}
Weights == {"normal", "bold", "400", "600", "700"}

InitSuspicious ==
  /\ EnginesIdle /\ VisualIdle /\ ResolverIdle /\ StoreIdle /\ LandingIdle /\ LimiterIdle
  /\ BackoffIdle /\ PluginsIdle
  /\ htmlPc = "ready"
  /\ \E lvl \in StyledLevels :
       /\ baselinePage \in
            [title : {"T"}, description : {1},
             headings : [1..1 -> [level : {lvl}, text : {"A"}, id : {FALSE},
                                  fontSize : BaselineSizes,
                                  fontWeight : Weights]]]
       /\ currentPage \in
            [title : {"T"}, description : {1},
             headings : [1..1 -> [level : {lvl}, text : {"A"}, id : {FALSE},
                                  fontSize : CurrentSizes,
                                  fontWeight : Weights]]]
  /\ htmlAudit = "none"
  /\ manipulationReport = "none"

NextSuspicious == StructureAudit

SpecSuspicious == InitSuspicious /\ [][NextSuspicious]_vars

\* A page audited against the baseline taken of that same page
InitSelfComparison ==
  /\ EnginesIdle /\ VisualIdle /\ ResolverIdle /\ StoreIdle /\ LandingIdle /\ LimiterIdle
  /\ BackoffIdle /\ PluginsIdle
  /\ htmlPc = "ready"
  /\ baselinePage \in [title : {"T"}, description : {0, 1, 2},
                       headings : SeqsUpTo(RestyledHeadings, MaxHeadings)]
  /\ currentPage = baselinePage
  /\ htmlAudit = "none"
  /\ manipulationReport = "none"

NextSelfComparison == StructureAudit

SpecSelfComparison == InitSelfComparison /\ [][NextSelfComparison]_vars

(***************************************************************************)
(* Claims about the structure detector                                     *)
(***************************************************************************)

HtmlAudited == htmlPc \in {"audited", "reported"}

\* The seo_manipulation_detected issues of the audit result
ManipulationIssues ==
  {k \in 1..Len(htmlAudit.issues) :
     htmlAudit.issues[k].type = "seo_manipulation_detected"}

\* The suspicious_styling warnings of the audit result
StylingWarnings ==
  {k \in 1..Len(htmlAudit.warnings) :
     htmlAudit.warnings[k].type = "suspicious_styling"}

\* The hierarchy changes whose selector contains the style change's selector
MatchingChanges(change) ==
  LET hcs == htmlAudit.structureComparison.headingChanges.hierarchyChanges
  IN {k \in 1..Len(hcs) : Includes(hcs[k].selector, change.selector)}

\* C11: every suspicious style change produces exactly one output: an error
\* seo_manipulation_detected issue holding a hierarchy change whose selector
\* matches and the style change itself if there is such a hierarchy change,
\* else a suspicious_styling warning; no seo_manipulation_detected issue is
\* emitted without a matching hierarchy change.
C11_OneOutputPerSuspiciousChange ==
  HtmlAudited =>
    LET sc == htmlAudit.stylingComparison.suspiciousChanges
        hcs == htmlAudit.structureComparison.headingChanges.hierarchyChanges
        IssuesFor(c) ==
          {k \in ManipulationIssues :
             htmlAudit.issues[k].details.stylingChange = c}
        WarningsFor(c) ==
          {k \in StylingWarnings : htmlAudit.warnings[k].details = c}
    IN /\ \A i \in 1..Len(sc) :
            /\ Cardinality(IssuesFor(sc[i])) + Cardinality(WarningsFor(sc[i])) = 1
            /\ MatchingChanges(sc[i]) # {} <=> IssuesFor(sc[i]) # {}
       /\ \A k \in ManipulationIssues :
            LET d == htmlAudit.issues[k].details IN
            /\ htmlAudit.issues[k].severity = "error"
            /\ \E i \in 1..Len(sc) : d.stylingChange = sc[i]
            /\ \E m \in MatchingChanges(d.stylingChange) :
                 d.structuralChange = hcs[m]
       /\ Cardinality(ManipulationIssues) + Cardinality(StylingWarnings)
            = Len(sc)

\* C11 witness: a suspicious style change was matched to a hierarchy change
\* and reported as seo_manipulation_detected.
C11_Witness ==
  /\ HtmlAudited
  /\ Len(htmlAudit.stylingComparison.suspiciousChanges) = 1
  /\ Cardinality(ManipulationIssues) = 1
  /\ StylingWarnings = {}

\* C12: if heading i was an H1 in the baseline and is an H3 or lower now, and
\* its font size grew by more than 20% or its font weight rose, the audit
\* result holds a seo_manipulation_detected issue.
C12_DemotedRestyledHeadingDetected ==
  HtmlAudited =>
    \A i \in 1..Min(Len(baselinePage.headings), Len(currentPage.headings)) :
      LET b == baselinePage.headings[i]
          c == currentPage.headings[i]
      IN (/\ b.level = 1 /\ c.level >= 3
          /\ \/ IsSignificantFontSizeIncrease(b.fontSize, c.fontSize)
             \/ IsWeightIncrease(b.fontWeight, c.fontWeight))
         => ManipulationIssues # {}

\* C13: an H1->H3 hierarchy change with a suspicious style change on an h3
\* selector is reported CRITICAL; without one it is reported HIGH, and no
\* detection function produces a CRITICAL entry or a
\* seo_manipulation_detected issue for it.
C13_CriticalOnlyWithStyling ==
  htmlPc = "reported" =>
    LET hcs == htmlAudit.structureComparison.headingChanges.hierarchyChanges
        sc == htmlAudit.stylingComparison.suspiciousChanges
        Styled == \E k \in 1..Len(sc) : Includes(sc[k].selector, <<"h3">>)
        EntriesFor(list, c) ==
          {k \in 1..Len(list) : list[k].structuralChange = c}
        h1h3 == manipulationReport.h1ToH3Manipulations
        all == manipulationReport.allHeadingManipulations
    IN \A m \in 1..Len(hcs) :
         (hcs[m].from = "H1" /\ hcs[m].to = "H3") =>
           /\ EntriesFor(h1h3, hcs[m]) # {}
           /\ Styled =>
                \A k \in EntriesFor(h1h3, hcs[m]) : h1h3[k].severity = "CRITICAL"
           /\ ~Styled =>
                /\ \A k \in EntriesFor(h1h3, hcs[m]) : h1h3[k].severity = "HIGH"
                /\ \A k \in EntriesFor(all, hcs[m]) : all[k].severity # "CRITICAL"
                /\ \A k \in ManipulationIssues :
                     htmlAudit.issues[k].details.structuralChange # hcs[m]

\* The impact the heading diff is to record for a level change b -> c
ExpectedImpact(b, c) ==
  IF b = 1 THEN "critical" ELSE IF c > b THEN "warning" ELSE "improvement"

Levels2(page) == [i \in 1..Len(page.headings) |-> page.headings[i].level]
TextsOf(page) == [i \in 1..Len(page.headings) |-> page.headings[i].text]

\* C14: for heading levels b # c at the same position compareHeadings
\* records one hierarchy change, from Hb to Hc, whose impact is critical if
\* b = 1, warning if b # 1 and c > b, improvement if c < b; baseline
\* [H1, H2] against current [H3, H2] (texts unchanged) gives exactly one
\* hierarchy change {from H1, to H3, impact critical} and nothing added,
\* removed or modified.
C14_HierarchyChangeImpact ==
  HtmlAudited =>
    LET hc == htmlAudit.structureComparison.headingChanges
        hcs == hc.hierarchyChanges
        B == baselinePage.headings
        C == currentPage.headings
        At(i) == {k \in 1..Len(hcs) : hcs[k].index = i - 1}
    IN /\ \A i \in 1..Min(Len(B), Len(C)) :
            IF B[i].level # C[i].level
              THEN /\ Cardinality(At(i)) = 1
                   /\ \A k \in At(i) :
                        /\ hcs[k].from = HeadingName(B[i].level)
                        /\ hcs[k].to = HeadingName(C[i].level)
                        /\ hcs[k].impact = ExpectedImpact(B[i].level, C[i].level)
              ELSE At(i) = {}
       /\ \A k \in 1..Len(hcs) : hcs[k].index + 1 \in 1..Min(Len(B), Len(C))
       /\ (/\ Levels2(baselinePage) = <<1, 2>>
           /\ Levels2(currentPage) = <<3, 2>>
           /\ TextsOf(baselinePage) = TextsOf(currentPage))
          => /\ Len(hcs) = 1
             /\ hcs[1].from = "H1" /\ hcs[1].to = "H3"
             /\ hcs[1].impact = "critical"
             /\ hc.added = <<>> /\ hc.removed = <<>> /\ hc.modified = <<>>

\* C14 witness: baseline [H1, H2] was compared with current [H3, H2].
C14_Witness ==
  /\ HtmlAudited
  /\ Levels2(baselinePage) = <<1, 2>>
  /\ Levels2(currentPage) = <<3, 2>>
  /\ TextsOf(baselinePage) = TextsOf(currentPage)
  /\ Len(htmlAudit.structureComparison.headingChanges.hierarchyChanges) = 1

\* C15: the structure score is max(0, 100 - 30 per critical heading change
\* - 15 per warning heading change - 10 per removed heading - 20 per removed
\* meta tag - 5 per modified meta tag - 25 per suspicious style change that
\* was matched to a hierarchy change); an unmatched suspicious style change
\* costs nothing.
C15_StructureScore ==
  HtmlAudited =>
    LET sc == htmlAudit.structureComparison
        hcs == sc.headingChanges.hierarchyChanges
        critical == Cardinality({k \in 1..Len(hcs) : hcs[k].impact = "critical"})
        warning == Cardinality({k \in 1..Len(hcs) : hcs[k].impact = "warning"})
        correlated == Cardinality(ManipulationIssues)
    IN htmlAudit.score =
         Max(0, 100 - 30 * critical - 15 * warning
                  - 10 * Len(sc.headingChanges.removed)
                  - 20 * Len(sc.metaTagChanges.removed)
                  - 5 * Len(sc.metaTagChanges.modified)
                  - 25 * correlated)

(***************************************************************************)
(* VisualRegressionAuditor.compareScreenshots, processComparison;          *)
(* manipulation-detector's detectVisualChanges                              *)
(*                                                                         *)
(* An image is its width, its height and width*height pixels, each 0 or 1. *)
(* A percentage is the exact fraction num/den.                              *)
(***************************************************************************)

Null == "null"

Pct(num, den) == [num |-> num, den |-> den]

\* A field the returned object does not have: no number, so that every
\* comparison with it is false
Undefined == Pct(0, 0)

\* p > n for a percentage p and a whole number n
PctGreater(p, n) == p.num > n * p.den

\* p > t/10 for a threshold given in tenths of a percent
PctAboveThreshold(p, t) == 10 * p.num > t * p.den

Image(w, h, k) ==
  [width |-> w, height |-> h,
   data |-> [i \in 1..(w * h) |-> IF i <= k THEN 1 ELSE 0]]

\* The baseline screenshots: blank images of every size
BaselineImages == {Image(w, h, 0) : w \in 1..MaxWidth, h \in 1..MaxHeight}

\* The current screenshots: of every size, the first k pixels painted
CurrentImages ==
  UNION {{Image(w, h, k) : k \in 0..(w * h)} :
           w \in 1..MaxWidth, h \in 1..MaxHeight}

\* this.config.threshold (417) in tenths of a percent: the default 0.1 and 30
Thresholds == {1, 300}

\* pixelmatch(baseline.data, current.data, ...) (637-647) on two-tone images:
\* the number of positions whose pixels differ
Pixelmatch(baselineData, currentData) ==
  Cardinality({i \in 1..Len(baselineData) : baselineData[i] # currentData[i]})

ComparisonError ==
  [hasChanges |-> TRUE, reason |-> "comparison_error",
   diffPixels |-> -1, diffPercentage |-> Undefined, diffPath |-> Null]

\* A comparison that tells a change of dimensions by the number of pixels.
CompareScreenshotsByArea(baseline, current, thr, fails) ==
  IF fails = "read"
    THEN [returned |-> ComparisonError, pixelmatched |-> FALSE, wrote |-> FALSE]
  ELSE IF current.width * current.height # baseline.width * baseline.height
    THEN [returned |->
            [hasChanges |-> TRUE, reason |-> "dimension_change",
             diffPixels |-> baseline.width * baseline.height,
             diffPercentage |-> Pct(100, 1), diffPath |-> Null],
          pixelmatched |-> FALSE, wrote |-> FALSE]
  ELSE LET diffPixels == Pixelmatch(baseline.data, current.data)
           diffPercentage ==
             Pct(diffPixels * 100, baseline.width * baseline.height)
           hasChanges == PctAboveThreshold(diffPercentage, thr)
       IN IF hasChanges /\ fails = "write"
            THEN [returned |-> ComparisonError, pixelmatched |-> TRUE,
                  wrote |-> FALSE]
            ELSE [returned |->
                    [hasChanges |-> hasChanges,
                     reason |-> IF hasChanges THEN "visual_difference"
                                              ELSE "no_change",
                     diffPixels |-> diffPixels,
                     diffPercentage |-> diffPercentage,
                     diffPath |-> IF hasChanges THEN "diffPath" ELSE Null],
                  pixelmatched |-> TRUE, wrote |-> hasChanges]

\* A comparison whose threshold is inclusive.
CompareScreenshotsInclusive(baseline, current, thr, fails) ==
  IF fails = "read"
    THEN [returned |-> ComparisonError, pixelmatched |-> FALSE, wrote |-> FALSE]
  ELSE IF current.width # baseline.width \/ current.height # baseline.height
    THEN [returned |->
            [hasChanges |-> TRUE, reason |-> "dimension_change",
             diffPixels |-> baseline.width * baseline.height,
             diffPercentage |-> Pct(100, 1), diffPath |-> Null],
          pixelmatched |-> FALSE, wrote |-> FALSE]
  ELSE LET diffPixels == Pixelmatch(baseline.data, current.data)
           diffPercentage ==
             Pct(diffPixels * 100, baseline.width * baseline.height)
           hasChanges == 10 * diffPercentage.num >= thr * diffPercentage.den
       IN IF hasChanges /\ fails = "write"
            THEN [returned |-> ComparisonError, pixelmatched |-> TRUE,
                  wrote |-> FALSE]
            ELSE [returned |->
                    [hasChanges |-> hasChanges,
                     reason |-> IF hasChanges THEN "visual_difference"
                                              ELSE "no_change",
                     diffPixels |-> diffPixels,
                     diffPercentage |-> diffPercentage,
                     diffPath |-> IF hasChanges THEN "diffPath" ELSE Null],
                  pixelmatched |-> TRUE, wrote |-> hasChanges]

\* compareScreenshots (617-674): its return value, whether it called
\* pixelmatch, whether it wrote the diff image
CompareScreenshots(baseline, current, thr, fails) ==
  IF fails = "read"
    THEN [returned |-> ComparisonError, pixelmatched |-> FALSE, wrote |-> FALSE]
  ELSE IF current.width # baseline.width \/ current.height # baseline.height
    THEN [returned |->
            [hasChanges |-> TRUE, reason |-> "dimension_change",
             diffPixels |-> baseline.width * baseline.height,
             diffPercentage |-> Pct(100, 1), diffPath |-> Null],
          pixelmatched |-> FALSE, wrote |-> FALSE]
  ELSE LET diffPixels == Pixelmatch(baseline.data, current.data)
           diffPercentage ==
             Pct(diffPixels * 100, baseline.width * baseline.height)
           hasChanges == PctAboveThreshold(diffPercentage, thr)
       IN IF hasChanges /\ fails = "write"
            THEN [returned |-> ComparisonError, pixelmatched |-> TRUE,
                  wrote |-> FALSE]
            ELSE [returned |->
                    [hasChanges |-> hasChanges,
                     reason |-> IF hasChanges THEN "visual_difference"
                                              ELSE "no_change",
                     diffPixels |-> diffPixels,
                     diffPercentage |-> diffPercentage,
                     diffPath |-> IF hasChanges THEN "diffPath" ELSE Null],
                  pixelmatched |-> TRUE, wrote |-> hasChanges]

\* A classification whose MAJOR threshold is inclusive.
ProcessComparisonInclusive(c) ==
  LET none == [issues |-> <<>>, warnings |-> <<>>, recommendations |-> <<>>]
  IN IF ~c.hasChanges THEN none
     ELSE IF c.reason = "dimension_change"
       THEN [none EXCEPT !.issues =
               <<[type |-> "layout_dimension_change", severity |-> "error"]>>]
     ELSE IF c.diffPercentage.den # 0
             /\ c.diffPercentage.num >= 50 * c.diffPercentage.den
       THEN [none EXCEPT !.issues =
               <<[type |-> "major_visual_change", severity |-> "error"]>>]
     ELSE IF PctGreater(c.diffPercentage, 20)
       THEN [none EXCEPT !.warnings =
               <<[type |-> "moderate_visual_change", severity |-> "warning"]>>]
     ELSE [none EXCEPT !.recommendations =
             <<[type |-> "minor_visual_change"]>>]

\* processComparison (676-735): what it pushes on the three lists
ProcessComparison(c) ==
  LET none == [issues |-> <<>>, warnings |-> <<>>, recommendations |-> <<>>]
  IN IF ~c.hasChanges THEN none
     ELSE IF c.reason = "dimension_change"
       THEN [none EXCEPT !.issues =
               <<[type |-> "layout_dimension_change", severity |-> "error"]>>]
     ELSE IF PctGreater(c.diffPercentage, 50)
       THEN [none EXCEPT !.issues =
               <<[type |-> "major_visual_change", severity |-> "error"]>>]
     ELSE IF PctGreater(c.diffPercentage, 20)
       THEN [none EXCEPT !.warnings =
               <<[type |-> "moderate_visual_change", severity |-> "warning"]>>]
     ELSE [none EXCEPT !.recommendations =
             <<[type |-> "minor_visual_change"]>>]

RECURSIVE SumPct(_)
\* reduce((sum, c) => sum + c.diffPercentage, 0) (743-744); a term that is
\* undefined makes the sum NaN (denominator 0)
SumPct(comparisons) ==
  IF comparisons = <<>> THEN Pct(0, 1)
  ELSE LET p == Head(comparisons).diffPercentage
           rest == SumPct(Tail(comparisons))
       IN Pct(p.num * rest.den + rest.num * p.den, p.den * rest.den)

\* calculateVisualScore (737-753): 100 - 2 * average diffPercentage of the
\* changed comparisons - 30 * their share, rounded, not below 0; NaN when
\* the average is NaN (Math.round and Math.max keep NaN).
CalculateVisualScore(comparisons) ==
  LET Changed(c) == c.hasChanges
      changedComparisons == SelectSeq(comparisons, Changed)
      n == Len(changedComparisons)
      sum == SumPct(changedComparisons)
      \* score = (100*d - 2*sum.num*total - 30*n*n*sum.den) / d, d as below
      d == sum.den * n * Len(comparisons)
      numerator == 100 * d - 2 * sum.num * Len(comparisons)
                     - 30 * n * n * sum.den
      rounded == (2 * numerator + d) \div (2 * d)
  IN IF comparisons = <<>> \/ n = 0 THEN [isNaN |-> FALSE, value |-> 100]
     ELSE IF sum.den = 0 THEN [isNaN |-> TRUE, value |-> 0]
     ELSE [isNaN |-> FALSE, value |-> IF rounded < 0 THEN 0 ELSE rounded]

\* detectVisualChanges (84-108) over result.visualRegression.visualChanges,
\* which audit (507) fills with the comparisons that have changes
DetectVisualChanges(comparisons) ==
  LET Changed(c) == c.hasChanges
      Entry(c) ==
        [diffPercentage |-> c.diffPercentage,
         severity |-> IF PctGreater(c.diffPercentage, 50) THEN "MAJOR"
                      ELSE IF PctGreater(c.diffPercentage, 20) THEN "MODERATE"
                      ELSE "MINOR",
         diffPath |-> c.diffPath]
  IN (LET kept == SelectSeq(comparisons, Changed)
      IN [k \in 1..Len(kept) |-> Entry(kept[k])])

InitVisual ==
  /\ EnginesIdle /\ HtmlIdle /\ ResolverIdle /\ StoreIdle /\ LandingIdle /\ LimiterIdle
  /\ BackoffIdle /\ PluginsIdle
  /\ visualPc = "ready"
  /\ baselineImage \in BaselineImages
  /\ currentImage \in CurrentImages
  /\ threshold \in Thresholds
  /\ fsFails \in {"none", "read", "write"}
  /\ visualComparison = "none"
  /\ pixelmatchCalls = 0
  /\ diffFile = FALSE
  /\ visualFindings = "none"
  /\ visualChanges = "none"
  /\ visualScore = "none"

\* captureFullPage / captureElement call compareScreenshots (545-551)
CompareStep ==
  /\ visualPc = "ready"
  /\ LET run == CompareScreenshots(baselineImage, currentImage, threshold,
                                   fsFails)
     IN /\ visualComparison' = run.returned
        /\ pixelmatchCalls' = IF run.pixelmatched THEN pixelmatchCalls + 1
                                                  ELSE pixelmatchCalls
        /\ diffFile' = run.wrote
  /\ visualPc' = "compared"
  /\ UNCHANGED <<baselineImage, currentImage, threshold, fsFails,
                 visualFindings, visualChanges, visualScore>>
  /\ UNCHANGED <<auditVars, pageVars, crawlVars, baselineVars, htmlVars,
                 resolverVars,
                 storeVars,
                 landingVars,
                 pluginVars,
                 backoffVars,
                 limiterVars>>

\* audit (462-469) hands the comparison to processComparison
ProcessStep ==
  /\ visualPc = "compared"
  /\ visualFindings' = ProcessComparison(visualComparison)
  /\ visualScore' = CalculateVisualScore(<<visualComparison>>)
  /\ visualPc' = "processed"
  /\ UNCHANGED <<baselineImage, currentImage, threshold, fsFails,
                 visualComparison, pixelmatchCalls, diffFile, visualChanges>>
  /\ UNCHANGED <<auditVars, pageVars, crawlVars, baselineVars, htmlVars,
                 resolverVars,
                 storeVars,
                 landingVars,
                 pluginVars,
                 backoffVars,
                 limiterVars>>

\* generateManipulationReport runs detectVisualChanges on the audit's result
DetectStep ==
  /\ visualPc = "processed"
  /\ visualChanges' = DetectVisualChanges(<<visualComparison>>)
  /\ visualPc' = "reported"
  /\ UNCHANGED <<baselineImage, currentImage, threshold, fsFails,
                 visualComparison, pixelmatchCalls, diffFile, visualFindings,
                 visualScore>>
  /\ UNCHANGED <<auditVars, pageVars, crawlVars, baselineVars, htmlVars,
                 resolverVars,
                 storeVars,
                 landingVars,
                 pluginVars,
                 backoffVars,
                 limiterVars>>

NextVisual == CompareStep \/ ProcessStep \/ DetectStep

SpecVisual == InitVisual /\ [][NextVisual]_vars

(***************************************************************************)
(* Claims about the visual detector                                        *)
(***************************************************************************)

VisualCompared == visualPc \in {"compared", "processed", "reported"}

DimensionsDiffer ==
  \/ currentImage.width # baselineImage.width
  \/ currentImage.height # baselineImage.height

\* C16: whenever the two images differ in width or height (and both could be
\* read), the comparison is dimension_change with hasChanges true and
\* diffPercentage 100 whatever the pixels are, pixelmatch is not called and
\* no diff image is written.
C16_DimensionChange ==
  (VisualCompared /\ fsFails # "read" /\ DimensionsDiffer) =>
    /\ visualComparison.reason = "dimension_change"
    /\ visualComparison.hasChanges
    /\ visualComparison.diffPercentage = Pct(100, 1)
    /\ visualComparison.diffPath = Null
    /\ pixelmatchCalls = 0
    /\ ~diffFile

\* C16 witness: images of the same number of pixels but different shape,
\* the current one painted, were compared.
C16_Witness ==
  /\ VisualCompared /\ fsFails = "none"
  /\ baselineImage.width = 2 /\ baselineImage.height = 1
  /\ currentImage.width = 1 /\ currentImage.height = 2
  /\ currentImage.data = <<1, 0>>
  /\ visualComparison.reason = "dimension_change"

ClassOf(f) ==
  IF f.issues # <<>> THEN "MAJOR"
  ELSE IF f.warnings # <<>> THEN "MODERATE"
  ELSE "MINOR"

\* C18: a changed comparison with diffPercentage > 50 is MAJOR (one error
\* issue), with 20 < diffPercentage <= 50 MODERATE (one warning), with
\* diffPercentage <= 20 MINOR (one recommendation, no issue or warning);
\* processComparison and detectVisualChanges give it the same class; an
\* unchanged comparison produces nothing.
C18_SeverityClasses ==
  visualPc = "reported" =>
    LET c == visualComparison
        f == visualFindings
        p == c.diffPercentage
        Only(list, other1, other2) ==
          Len(list) = 1 /\ other1 = <<>> /\ other2 = <<>>
    IN IF ~c.hasChanges
         THEN /\ f.issues = <<>> /\ f.warnings = <<>>
              /\ f.recommendations = <<>>
              /\ visualChanges = <<>>
         ELSE /\ Len(visualChanges) = 1
              /\ ClassOf(f) = visualChanges[1].severity
              /\ c.reason # "comparison_error" =>
                   /\ p.num > 50 * p.den =>
                        /\ visualChanges[1].severity = "MAJOR"
                        /\ Only(f.issues, f.warnings, f.recommendations)
                        /\ f.issues[1].severity = "error"
                   /\ (p.num > 20 * p.den /\ p.num <= 50 * p.den) =>
                        /\ visualChanges[1].severity = "MODERATE"
                        /\ Only(f.warnings, f.issues, f.recommendations)
                        /\ f.warnings[1].severity = "warning"
                   /\ p.num <= 20 * p.den =>
                        /\ visualChanges[1].severity = "MINOR"
                        /\ Only(f.recommendations, f.issues, f.warnings)

\* C18 witness: a comparison of exactly 50 percent was classed MODERATE by
\* both functions.
C18_Witness ==
  /\ visualPc = "reported"
  /\ visualComparison.reason = "visual_difference"
  /\ visualComparison.diffPercentage.num
       = 50 * visualComparison.diffPercentage.den
  /\ visualChanges[1].severity = "MODERATE"
  /\ Len(visualFindings.warnings) = 1

(***************************************************************************)
(* Claims about external links                                             *)
(***************************************************************************)

\* The same-domain page B and the external page C of the scenario
PageB == SeedUrl + 1
PageC == NumCrawlUrls

\* C19: unless followExternalLinks is true, every URL of the discovered set
\* and of the queue has the seed's hostname; and when the seed, crawled with
\* maxDepth = 1, links to the same-domain B and the external C and B has no
\* links, discoverUrls returns exactly the seed and B.
C19_ExternalLinksExcluded ==
  ~followExternalLinks =>
    /\ \A u \in discoveredUrls : Hostname(u) = BaseDomain
    /\ \A i \in 1..Len(crawlQueue) : Hostname(crawlQueue[i].url) = BaseDomain
    /\ (/\ crawlPc = "returned" /\ maxDepth = 1 /\ maxUrls >= 2
        /\ cache[SeedUrl] = {PageB, PageC}
        /\ cache[PageB] \in {NoLinks, {}})
         => discoveredUrls = {SeedUrl, PageB}

\* C19 witness: the seed linked to B and C, B was crawled and had no links,
\* discoverUrls returned.
C19_Witness ==
  /\ ~followExternalLinks /\ crawlPc = "returned" /\ maxDepth = 1
  /\ cache[SeedUrl] = {PageB, PageC} /\ cache[PageB] = {}
  /\ Hostname(PageC) # BaseDomain
  /\ visitedUrls = {SeedUrl, PageB}
  /\ discoveredUrls = {SeedUrl, PageB}

(***************************************************************************)
(* UrlResolver.normalize                                                   *)
(***************************************************************************)

\* A string is a sequence of tokens: a scheme, "//h" (the slashes and a host
\* name), a port with its colon, and the characters of a path.
MaxPathLen == 5
Schemes == {"http:", "https:", "HTTP:"}
HostToken == "//h"
OtherHostToken == "//o"
HostTokens == {HostToken, OtherHostToken}
PortTokens == {":80", ":443", ":8080"}
PathChars == {"/", "a", "."}

\* The strings normalize is given: absolute URLs with or without a port and a
\* path, and relative references (which new URL rejects)
PathStrings == SeqsUpTo(PathChars, MaxPathLen)
RootedPaths == {p \in PathStrings : p = <<>> \/ Head(p) = "/"}
NormalizeInputs ==
  {<<s, HostToken>> \o port \o p :
     s \in Schemes, port \in {<<>>} \cup {<<t>> : t \in PortTokens},
     p \in RootedPaths}
  \cup PathStrings

\* The URL parser lower-cases the scheme
LowerCase(s) == IF s = "HTTP:" THEN "http:" ELSE s

\* The port the URL parser leaves out for a scheme
DefaultPort(protocol) == IF protocol = "http:" THEN ":80" ELSE ":443"

RECURSIVE PathState(_, _, _)
\* The URL parser's path state on the characters rest, with the segment read
\* so far in buffer: "." segments are dropped, ".." removes the segment
\* before it, a dot segment at the end leaves an empty last segment.
PathState(rest, buffer, path) ==
  IF rest = <<>> \/ Head(rest) = "/"
    THEN LET atEnd == (rest = <<>>)
             shortened == IF path = <<>> THEN path
                          ELSE SubSeq(path, 1, Len(path) - 1)
             path1 ==
               IF buffer = <<".", ".">>
                 THEN IF atEnd THEN Append(shortened, <<>>) ELSE shortened
               ELSE IF buffer = <<".">>
                 THEN IF atEnd THEN Append(path, <<>>) ELSE path
               ELSE Append(path, buffer)
         IN IF atEnd THEN path1 ELSE PathState(Tail(rest), <<>>, path1)
    ELSE PathState(Tail(rest), Append(buffer, Head(rest)), path)

\* The URL parser from its path start state: the segments of a path string
ParsePath(chars) ==
  IF chars # <<>> /\ Head(chars) = "/"
    THEN PathState(Tail(chars), <<>>, <<>>)
    ELSE PathState(chars, <<>>, <<>>)

RECURSIVE PathnameOf(_)
\* The pathname getter: every segment preceded by a slash
PathnameOf(path) ==
  IF path = <<>> THEN <<>>
  ELSE <<"/">> \o Head(path) \o PathnameOf(Tail(path))

\* new URL(url) (8): the parsed URL, or valid = FALSE where it throws
NewURL(url) ==
  LET absolute == Len(url) >= 2 /\ url[1] \in Schemes /\ url[2] \in HostTokens
      hasPort == absolute /\ Len(url) >= 3 /\ url[3] \in PortTokens
      chars == IF ~absolute THEN url
               ELSE SubSeq(url, IF hasPort THEN 4 ELSE 3, Len(url))
      wellFormed ==
        /\ absolute
        /\ \A i \in 1..Len(chars) : chars[i] \in PathChars
        /\ chars = <<>> \/ Head(chars) = "/"
  IN IF ~wellFormed
       THEN [valid |-> FALSE, protocol |-> "", host |-> "", port |-> "",
             path |-> <<>>]
       ELSE [valid |-> TRUE,
             protocol |-> LowerCase(url[1]),
             host |-> url[2],
             port |-> IF hasPort /\ url[3] # DefaultPort(LowerCase(url[1]))
                        THEN url[3] ELSE "",
             path |-> ParsePath(chars)]

\* urlObj.toString() (19)
Href(urlObj) ==
  <<urlObj.protocol, urlObj.host>>
    \o (IF urlObj.port = "" THEN <<>> ELSE <<urlObj.port>>)
    \o PathnameOf(urlObj.path)

\* The pathname setter (15, 17): the value is parsed again
SetPathname(urlObj, value) == [urlObj EXCEPT !.path = ParsePath(value)]

RECURSIVE SkipSlashes(_)
SkipSlashes(chars) ==
  IF chars # <<>> /\ Head(chars) = "/" THEN SkipSlashes(Tail(chars)) ELSE chars

RECURSIVE CollapseFirstRun(_)
\* A replace without the g flag: only the first run of slashes becomes one.
CollapseFirstRun(chars) ==
  IF chars = <<>> THEN <<>>
  ELSE IF Head(chars) = "/" THEN <<"/">> \o SkipSlashes(Tail(chars))
  ELSE <<Head(chars)>> \o CollapseFirstRun(Tail(chars))

RECURSIVE CollapseSlashes(_)
\* pathname.replace(/\/+/g, "/") (15)
CollapseSlashes(chars) ==
  IF chars = <<>> THEN <<>>
  ELSE IF Head(chars) = "/"
    THEN <<"/">> \o CollapseSlashes(SkipSlashes(Tail(chars)))
  ELSE <<Head(chars)>> \o CollapseSlashes(Tail(chars))

\* normalize(url) (6-23)
Normalize(url) ==
  LET parsed == NewURL(url)
      urlObj == IF \/ parsed.protocol = "http:" /\ parsed.port = ":80"
                   \/ parsed.protocol = "https:" /\ parsed.port = ":443"
                  THEN [parsed EXCEPT !.port = ""] ELSE parsed
      collapsed == SetPathname(urlObj, CollapseSlashes(PathnameOf(urlObj.path)))
      pathname == PathnameOf(collapsed.path)
      stripped ==
        IF pathname[Len(pathname)] = "/" /\ Len(pathname) > 1
          THEN SetPathname(collapsed, SubSeq(pathname, 1, Len(pathname) - 1))
          ELSE collapsed
  IN IF ~parsed.valid THEN url ELSE Href(stripped)

InitResolver ==
  /\ EnginesIdle /\ HtmlIdle /\ VisualIdle /\ StoreIdle /\ LandingIdle /\ LimiterIdle
  /\ BackoffIdle /\ PluginsIdle
  /\ resolverPc = "ready"
  /\ normalizeArg \in NormalizeInputs
  /\ normalized = "none"
  /\ renormalized = "none"

\* normalize(url) is called
NormalizeOnce ==
  /\ resolverPc = "ready"
  /\ normalized' = Normalize(normalizeArg)
  /\ resolverPc' = "once"
  /\ UNCHANGED <<normalizeArg, renormalized>>
  /\ UNCHANGED <<auditVars, pageVars, crawlVars, baselineVars, htmlVars,
                 visualVars,
                 storeVars,
                 landingVars,
                 pluginVars,
                 backoffVars,
                 limiterVars>>

\* normalize is called on what it returned
NormalizeTwice ==
  /\ resolverPc = "once"
  /\ renormalized' = Normalize(normalized)
  /\ resolverPc' = "twice"
  /\ UNCHANGED <<normalizeArg, normalized>>
  /\ UNCHANGED <<auditVars, pageVars, crawlVars, baselineVars, htmlVars,
                 visualVars,
                 storeVars,
                 landingVars,
                 pluginVars,
                 backoffVars,
                 limiterVars>>

NextResolver == NormalizeOnce \/ NormalizeTwice

SpecResolver == InitResolver /\ [][NextResolver]_vars

\* C20: normalize applied to its own result returns that result, for every
\* string: URLs with default ports, repeated slashes, dot segments or
\* trailing slashes, and strings new URL rejects.
C20_NormalizeIdempotent ==
  resolverPc = "twice" => renormalized = normalized

\* C20 witness: a URL with an upper-case scheme, the default port, repeated
\* and trailing slashes was normalized twice, and normalize changed it.
C20_Witness ==
  /\ resolverPc = "twice"
  /\ normalizeArg = <<"HTTP:", HostToken, ":80", "/", "/", "a", "/", "/">>
  /\ normalized = <<"http:", HostToken, "/", "a">>
  /\ renormalized = normalized

(***************************************************************************)
(* HTMLStructureAuditor.audit with its baseline file                       *)
(***************************************************************************)

\* The pages given to audit
StorePages ==
  [title : {"T"}, description : {0, 1},
   headings : SeqsUpTo(BaselineHeadings, MaxHeadings)]

NoFile == [exists |-> FALSE, readable |-> FALSE]
UnreadableFile == [exists |-> TRUE, readable |-> FALSE]

\* A first audit that stores the structure without the style snapshot.
FileAfterAuditNoStyling(file, page) ==
  IF ~file.exists
    THEN [exists |-> TRUE, readable |-> TRUE,
          content |-> [structure |-> ExtractStructure(page), styling |-> <<>>]]
    ELSE file

\* The baseline file after audit(page, url): written only in the branch
\* where fs.pathExists answered false (94-104)
FileAfterAudit(file, page) ==
  IF ~file.exists
    THEN [exists |-> TRUE, readable |-> TRUE, content |-> Snapshot(page)]
    ELSE file

\* How audit(page, url) ends (35-125): the baseline-created result when there
\* is no file, the exception of fs.readJSON rethrown by the catch block when
\* the file cannot be read or parsed, else the comparison.
AuditOutcome(file, page) ==
  IF ~file.exists
    THEN [thrown |-> FALSE, baselineCreated |-> TRUE, compared |-> FALSE,
          issues |-> <<>>, warnings |-> <<>>, score |-> 100]
  ELSE IF ~file.readable
    THEN [thrown |-> TRUE, baselineCreated |-> FALSE, compared |-> FALSE]
  ELSE LET result == CompareWithSnapshot(file.content, page)
       IN [thrown |-> FALSE, baselineCreated |-> FALSE, compared |-> TRUE,
           baselineStructure |-> file.content.structure,
           structureComparison |-> result.structureComparison,
           issues |-> result.issues, warnings |-> result.warnings,
           score |-> result.score]

\* The baseline directory is empty or holds a file that is not valid JSON.
InitStore ==
  /\ EnginesIdle /\ HtmlIdle /\ VisualIdle /\ ResolverIdle /\ LandingIdle /\ LimiterIdle
  /\ BackoffIdle /\ PluginsIdle
  /\ structureFile \in {NoFile, UnreadableFile}
  /\ auditLog = <<>>

\* audit(page, url) runs from start to end; a first and a second audit of
\* the URL are followed.
AuditWithStore(page) ==
  /\ Len(auditLog) < 2
  /\ structureFile' = FileAfterAudit(structureFile, page)
  /\ auditLog' = Append(auditLog,
                        [page |-> page, before |-> structureFile,
                         after |-> structureFile',
                         outcome |-> AuditOutcome(structureFile, page)])
  /\ UNCHANGED <<auditVars, pageVars, crawlVars, baselineVars, htmlVars,
                 visualVars, resolverVars,
                 landingVars,
                 pluginVars,
                 backoffVars,
                 limiterVars>>

\* The stored file is truncated or overwritten with something that is not
\* JSON (a crash during a write, a disk fault, an edit).
DamageFile ==
  /\ structureFile.exists /\ structureFile.readable
  /\ structureFile' = UnreadableFile
  /\ UNCHANGED auditLog
  /\ UNCHANGED <<auditVars, pageVars, crawlVars, baselineVars, htmlVars,
                 visualVars, resolverVars,
                 landingVars,
                 pluginVars,
                 backoffVars,
                 limiterVars>>

NextStore == (\E page \in StorePages : AuditWithStore(page)) \/ DamageFile

SpecStore == InitStore /\ [][NextStore]_vars

(***************************************************************************)
(* Claims about the structure baseline file                                *)
(***************************************************************************)

\* C21: an audit that finds the baseline file present but unreadable does
\* not throw; it writes a fresh baseline from the current page and returns
\* the baseline-created result (score 100, no issues).
C21_UnreadableBaselineRecreated ==
  \A i \in 1..Len(auditLog) :
    LET e == auditLog[i] IN
    (e.before.exists /\ ~e.before.readable) =>
      /\ ~e.outcome.thrown
      /\ e.outcome.baselineCreated
      /\ e.outcome.score = 100 /\ e.outcome.issues = <<>>
      /\ e.after = [exists |-> TRUE, readable |-> TRUE,
                    content |-> Snapshot(e.page)]

\* C26: an audit that finds no baseline file stores the snapshot of the
\* current page and returns score 100 with no issue, no warning and no
\* comparison, whatever the page; the next audit, the file being as the
\* first one left it, compares against exactly that snapshot.
C26_FirstAuditCreatesBaseline ==
  \A i \in 1..Len(auditLog) :
    LET e == auditLog[i] IN
    ~e.before.exists =>
      /\ ~e.outcome.thrown /\ e.outcome.baselineCreated
      /\ ~e.outcome.compared
      /\ e.outcome.score = 100
      /\ e.outcome.issues = <<>> /\ e.outcome.warnings = <<>>
      /\ e.after = [exists |-> TRUE, readable |-> TRUE,
                    content |-> Snapshot(e.page)]
      /\ (i < Len(auditLog) /\ auditLog[i + 1].before = e.after) =>
           LET next == auditLog[i + 1] IN
           /\ next.outcome.compared /\ ~next.outcome.baselineCreated
           /\ next.outcome.baselineStructure = ExtractStructure(e.page)
           /\ next.outcome.structureComparison =
                CompareStructures(ExtractStructure(e.page),
                                  ExtractStructure(next.page))
           /\ next.after = e.after

\* C26 witness: the first audit stored a page with an H1; the second audit,
\* of a page whose H1 became an H3, was compared with it and found the change.
C26_Witness ==
  /\ Len(auditLog) = 2
  /\ ~auditLog[1].before.exists
  /\ Len(auditLog[1].page.headings) = 1
  /\ auditLog[1].page.headings[1].level = 1
  /\ Len(auditLog[2].page.headings) = 1
  /\ auditLog[2].page.headings[1].level = 3
  /\ auditLog[1].outcome.score = 100
  /\ auditLog[2].outcome.compared
  /\ auditLog[2].outcome.score < 100

\* C22: when an image cannot be read or decoded, compareScreenshots returns
\* hasChanges true with diffPercentage 100, the comparison is classed MAJOR
\* and the audit's score is a number between 0 and 100.
C22_ReadErrorForcedMaximal ==
  fsFails = "read" =>
    /\ VisualCompared =>
         /\ visualComparison.hasChanges
         /\ visualComparison.diffPercentage = Pct(100, 1)
    /\ visualPc \in {"processed", "reported"} =>
         /\ ClassOf(visualFindings) = "MAJOR"
         /\ ~visualScore.isNaN /\ visualScore.value \in 0..100
    /\ visualPc = "reported" => visualChanges[1].severity = "MAJOR"

(***************************************************************************)
(* LandingPageAuditor.auditLandingPage, generateSummary, AuditSummary      *)
(***************************************************************************)

NoSummary == [produced |-> FALSE]

\* new AuditSummary({..., totalUrls, isFailure, results}) (part_001 1-34):
\* isFailure is the flag it is given, the counts come from the results
NewAuditSummary(results, isFailure) ==
  [produced |-> TRUE,
   isFailure |-> isFailure,
   totalUrls |-> Len(results),
   successfulAudits |-> Cardinality({i \in 1..Len(results) : results[i]}),
   failedAudits |-> Cardinality({i \in 1..Len(results) : ~results[i]})]

\* generateSummary(auditResults, landingUrl, isFailure = false) (189-210)
GenerateSummary(results, isFailure) ==
  NewAuditSummary(results, isFailure)

\* auditLandingPage is called on an initialized auditor (55-68)
InitLanding ==
  /\ EnginesIdle /\ HtmlIdle /\ VisualIdle /\ ResolverIdle /\ StoreIdle /\ LimiterIdle
  /\ BackoffIdle /\ PluginsIdle
  /\ landingPc = "discover"
  /\ notifications \in BOOLEAN
  /\ crawlResults = 0
  /\ landingResults = <<>>
  /\ summary = NoSummary
  /\ landingThrown = FALSE

LandingUnchanged ==
  UNCHANGED <<auditVars, pageVars, crawlVars, baselineVars, htmlVars,
              visualVars, resolverVars, storeVars,
                 pluginVars,
                 backoffVars,
                 limiterVars>>

\* Phase 1 (69-74): discoverUrls returns n results; none is an error
DiscoverReturns(n) ==
  /\ landingPc = "discover"
  /\ crawlResults' = n
  /\ landingPc' = IF n = 0 THEN "catch" ELSE "audit"
  /\ UNCHANGED <<notifications, landingResults, summary, landingThrown>>
  /\ LandingUnchanged

\* Phase 1: the crawler's discoverUrls throws (part_004 146-154)
DiscoverThrows ==
  /\ landingPc = "discover"
  /\ landingPc' = "catch"
  /\ UNCHANGED <<notifications, crawlResults, landingResults, summary,
                 landingThrown>>
  /\ LandingUnchanged

\* Phase 2 (76-77): auditUrls returns the results of the audited URLs
AuditUrlsReturns(results) ==
  /\ landingPc = "audit"
  /\ Len(results) = crawlResults
  /\ landingResults' = results
  /\ landingPc' = "summary"
  /\ UNCHANGED <<notifications, crawlResults, summary, landingThrown>>
  /\ LandingUnchanged

\* Phase 2: auditUrls throws; auditResults keeps its initial value []
AuditUrlsThrows ==
  /\ landingPc = "audit"
  /\ landingPc' = "catch"
  /\ UNCHANGED <<notifications, crawlResults, landingResults, summary,
                 landingThrown>>
  /\ LandingUnchanged

\* Phase 3 (79-80): the summary of the normal path
SummaryStep ==
  /\ landingPc = "summary"
  /\ summary' = GenerateSummary(landingResults, FALSE)
  /\ landingPc' = "reports"
  /\ UNCHANGED <<notifications, crawlResults, landingResults, landingThrown>>
  /\ LandingUnchanged

\* generateReports (82-86) and sendNotifications (88-90) return or throw
ReportsStep(ok) ==
  /\ landingPc = "reports"
  /\ landingPc' = IF ~ok THEN "catch"
                  ELSE IF notifications THEN "notify" ELSE "finally"
  /\ UNCHANGED <<notifications, crawlResults, landingResults, summary,
                 landingThrown>>
  /\ LandingUnchanged

NotifyStep(ok) ==
  /\ landingPc = "notify"
  /\ landingPc' = IF ok THEN "finally" ELSE "catch"
  /\ UNCHANGED <<notifications, crawlResults, landingResults, summary,
                 landingThrown>>
  /\ LandingUnchanged

\* The catch block (109-124): a failure summary only when there are audit
\* results; the error is thrown again.
CatchStep ==
  /\ landingPc = "catch"
  /\ summary' = IF Len(landingResults) > 0
                  THEN GenerateSummary(landingResults, TRUE)
                  ELSE summary
  /\ landingThrown' = TRUE
  /\ landingPc' = "finally"
  /\ UNCHANGED <<notifications, crawlResults, landingResults>>
  /\ LandingUnchanged

\* The finally block (125-127): cleanup; the call returns or throws
FinallyStep ==
  /\ landingPc = "finally"
  /\ landingPc' = IF landingThrown THEN "thrown" ELSE "returned"
  /\ UNCHANGED <<notifications, crawlResults, landingResults, summary,
                 landingThrown>>
  /\ LandingUnchanged

NextLanding ==
  \/ \E n \in 0..NumUrls : DiscoverReturns(n)
  \/ DiscoverThrows
  \/ \E results \in SeqsUpTo(BOOLEAN, NumUrls) : AuditUrlsReturns(results)
  \/ AuditUrlsThrows
  \/ SummaryStep
  \/ \E ok \in BOOLEAN : ReportsStep(ok)
  \/ \E ok \in BOOLEAN : NotifyStep(ok)
  \/ CatchStep
  \/ FinallyStep

SpecLanding == InitLanding /\ [][NextLanding]_vars

\* C23: every run of auditLandingPage ends with an AuditSummary produced,
\* and a summary whose successful-audit count is zero has isFailure set,
\* also when every URL audit returned a failed result and nothing threw.
C23_SummaryAlwaysProduced ==
  /\ landingPc \in {"returned", "thrown"} => summary.produced
  /\ (summary.produced /\ summary.successfulAudits = 0) => summary.isFailure

(***************************************************************************)
(* AuditEngine.initializeAuditors, shouldRunAuditor, compileAuditResults,  *)
(* AuditResult.constructor                                                 *)
(***************************************************************************)

\* The auditors registered whatever the configuration (515-533)
CoreAuditors ==
  <<"canonical", "metaTags", "headings", "redirects", "brokenLinks",
    "structuredData">>

\* The names under which the two detectors' results are looked up
DetectorNames == {"htmlStructure", "visualRegression"}

\* initializeAuditors (491-560): the keys of this.auditors in insertion order
InitializeAuditors(config) ==
  CoreAuditors
    \o (IF config.includePerformance THEN <<"performance">> ELSE <<>>)
    \o (IF config.includeAccessibility THEN <<"accessibility">> ELSE <<>>)

\* shouldRunAuditor (1200-1229)
ShouldRunAuditor(auditorName, options, config) ==
  \/ \E i \in 1..Len(CoreAuditors) : CoreAuditors[i] = auditorName
  \/ /\ auditorName = "performance"
     /\ options.includePerformance \/ config.includePerformance
  \/ /\ auditorName = "accessibility"
     /\ options.includeAccessibility \/ config.includeAccessibility

\* The auditors auditSingleUrl starts (775-782), in the order of the map
EnabledAuditors(auditors, options, config) ==
  LET Runs(name) == ShouldRunAuditor(name, options, config)
  IN SelectSeq(auditors, Runs)

\* What a successful auditor named name returns: two issues, a warning and a
\* recommendation of its own
PluginResult(name) ==
  [issues |-> <<[auditor |-> name, n |-> 1], [auditor |-> name, n |-> 2]>>,
   warnings |-> <<[auditor |-> name, n |-> 1]>>,
   recommendations |-> <<[auditor |-> name, n |-> 1]>>]

\* A compilation that lists what the successful auditors found first and
\* the failures after them.
CompileFailuresLast(names, outcome) ==
  LET Ok(name) == outcome[name] = "ok"
      Failed(name) == outcome[name] # "ok"
      good == SelectSeq(names, Ok)
      bad == SelectSeq(names, Failed)
      Concat[i \in 0..Len(good)] ==
        IF i = 0 THEN [issues |-> <<>>, warnings |-> <<>>,
                       recommendations |-> <<>>]
        ELSE [issues |-> Concat[i - 1].issues \o PluginResult(good[i]).issues,
              warnings |->
                Concat[i - 1].warnings \o PluginResult(good[i]).warnings,
              recommendations |->
                Concat[i - 1].recommendations
                  \o PluginResult(good[i]).recommendations]
  IN [named |-> {good[i] : i \in 1..Len(good)},
      issues |-> Concat[Len(good)].issues
                   \o [i \in 1..Len(bad) |->
                         [type |-> "audit_failure", auditor |-> bad[i]]],
      warnings |-> Concat[Len(good)].warnings,
      recommendations |-> Concat[Len(good)].recommendations]

RECURSIVE CompileResults(_, _)
\* compileAuditResults (1231-1303) on the array Promise.allSettled resolved
\* with, which follows the order of the promises (775-791): the names that
\* received a result, and the three lists.
CompileResults(names, outcome) ==
  IF names = <<>>
    THEN [named |-> {}, issues |-> <<>>, warnings |-> <<>>,
          recommendations |-> <<>>]
  ELSE LET name == Head(names)
           rest == CompileResults(Tail(names), outcome)
       IN IF outcome[name] = "ok"
            THEN [named |-> {name} \cup rest.named,
                  issues |-> PluginResult(name).issues \o rest.issues,
                  warnings |-> PluginResult(name).warnings \o rest.warnings,
                  recommendations |->
                    PluginResult(name).recommendations \o rest.recommendations]
            ELSE [rest EXCEPT !.issues =
                    <<[type |-> "audit_failure", auditor |-> name]>> \o @]

\* The fields the AuditResult constructor copies an auditor's result into
\* (part_000 138-145)
ResultFields ==
  {"canonical", "metaTags", "headings", "redirects", "brokenLinks",
   "structuredData", "performance", "accessibility"}

\* new AuditResult({..., ...compiledResults}) (813-822; part_000 128-153)
NewAuditResult(compiledData) ==
  [named |-> compiledData.named \cap ResultFields,
   issues |-> compiledData.issues,
   warnings |-> compiledData.warnings,
   recommendations |-> compiledData.recommendations]

\* The engine as LandingPageAuditor builds it (17-24): both detector flags
\* are true; auditSingleUrl has navigated and started the auditors (775-791).
InitPlugins ==
  /\ EnginesIdle /\ HtmlIdle /\ VisualIdle /\ ResolverIdle /\ StoreIdle /\ LimiterIdle
  /\ BackoffIdle /\ LandingIdle
  /\ pluginsPc = "running"
  /\ engineConfig \in [includePerformance : BOOLEAN,
                       includeAccessibility : BOOLEAN,
                       includeVisualRegression : {TRUE},
                       includeStructureComparison : {TRUE}]
  /\ runOptions \in [includePerformance : BOOLEAN,
                     includeAccessibility : BOOLEAN]
  /\ auditorsMap = InitializeAuditors(engineConfig)
  /\ settled = [name \in {EnabledAuditors(auditorsMap, runOptions,
                                          engineConfig)[i] :
                            i \in 1..Len(EnabledAuditors(auditorsMap,
                                                         runOptions,
                                                         engineConfig))}
                  |-> "pending"]
  /\ firstSettled = "none"
  /\ compiledResults = "none"
  /\ finalResult = "none"

PluginsUnchanged ==
  UNCHANGED <<auditVars, pageVars, crawlVars, baselineVars, htmlVars,
              visualVars, resolverVars, storeVars, landingVars,
                 backoffVars,
                 limiterVars>>

\* The promise of runAuditorWithTimeout for one auditor settles
\* (1141-1198): its audit returned, or it threw or lost against the timer.
AuditorSettles(name, outcome) ==
  /\ pluginsPc = "running"
  /\ name \in DOMAIN settled /\ settled[name] = "pending"
  /\ settled' = [settled EXCEPT ![name] = outcome]
  /\ firstSettled' = IF firstSettled = "none" THEN name ELSE firstSettled
  /\ UNCHANGED <<pluginsPc, engineConfig, runOptions, auditorsMap,
                 compiledResults, finalResult>>
  /\ PluginsUnchanged

\* Promise.allSettled resolves; the results are compiled and the AuditResult
\* is built (791-822).
CompilePlugins ==
  /\ pluginsPc = "running"
  /\ \A name \in DOMAIN settled : settled[name] # "pending"
  /\ compiledResults' =
       CompileResults(EnabledAuditors(auditorsMap, runOptions, engineConfig),
                      settled)
  /\ finalResult' = NewAuditResult(compiledResults')
  /\ pluginsPc' = "compiled"
  /\ UNCHANGED <<engineConfig, runOptions, auditorsMap, settled, firstSettled>>
  /\ PluginsUnchanged

NextPlugins ==
  \/ \E name \in ResultFields, outcome \in {"ok", "failed"} :
       AuditorSettles(name, outcome)
  \/ CompilePlugins

SpecPlugins == InitPlugins /\ [][NextPlugins]_vars

\* C24: with structure comparison and visual regression enabled, the two
\* detectors are among the auditors run for a navigated URL, and each
\* detector that succeeded has its result in the final AuditResult under
\* its name.
C24_DetectorsAreDispatched ==
  (/\ pluginsPc = "compiled"
   /\ engineConfig.includeStructureComparison
   /\ engineConfig.includeVisualRegression) =>
    \A d \in DetectorNames :
      /\ d \in DOMAIN settled
      /\ settled[d] = "ok" => d \in finalResult.named

\* The place of an auditor in the registration order
RegistrationIndex(name) ==
  CHOOSE i \in 1..Len(auditorsMap) : auditorsMap[i] = name

\* The entries of list follow the registration order of their auditors
InRegistrationOrder(list) ==
  \A i, j \in 1..Len(list) :
    i < j => RegistrationIndex(list[i].auditor)
               <= RegistrationIndex(list[j].auditor)

\* C28: in a compiled AuditResult the issues, warnings and recommendations
\* follow the auditors' registration order: everything from an auditor
\* registered earlier precedes everything from one registered later,
\* whichever finished, failed or timed out first.
C28_RegistrationOrder ==
  pluginsPc = "compiled" =>
    /\ InRegistrationOrder(finalResult.issues)
    /\ InRegistrationOrder(finalResult.warnings)
    /\ InRegistrationOrder(finalResult.recommendations)
    /\ \A name \in DOMAIN settled :
         LET Mine(e) == e.auditor = name
         IN Len(SelectSeq(finalResult.issues, Mine)) =
              IF settled[name] = "ok" THEN 2 ELSE 1

\* C28 witness: the auditor registered last settled first, the first one
\* failed and the second succeeded; the failure issue of the first heads
\* the list.
C28_Witness ==
  /\ pluginsPc = "compiled"
  /\ firstSettled = auditorsMap[Len(auditorsMap)]
  /\ settled["canonical"] = "failed" /\ settled["metaTags"] = "ok"
  /\ finalResult.issues[1] = [type |-> "audit_failure", auditor |-> "canonical"]
  /\ finalResult.issues[2] = [auditor |-> "metaTags", n |-> 1]


(***************************************************************************)
(* The progress callback of auditUrls                                      *)
(***************************************************************************)

\* The calls of the progress callback that reported URL u.
CallsFor(u) == {k \in 1..Len(progressCalls) : progressCalls[k].url = u}

\* C25: during auditUrls with a progress callback, the callback is invoked
\* exactly once per submitted URL (never twice, and once for each URL by the
\* time auditUrls returns); `current` is 1, 2, ..., N over the successive
\* calls, `total` is always N, and at every call the success count plus the
\* failure count equals `current`.
C25_ProgressCallback ==
  /\ \A k \in 1..Len(progressCalls) :
       /\ progressCalls[k].current = k
       /\ progressCalls[k].total = NumUrls
       /\ progressCalls[k].successful + progressCalls[k].failed
            = progressCalls[k].current
  /\ \A u \in Urls : Cardinality(CallsFor(u)) <= 1
  /\ auditUrlsPc = "returned" => \A u \in Urls : Cardinality(CallsFor(u)) = 1


(***************************************************************************)
(* Failed fetches during discovery                                         *)
(***************************************************************************)

\* The pages whose fetch was started and has ended without links.
FetchFailed ==
  {u \in visitedUrls :
     /\ cache[u] = NoLinks
     /\ crawlPc \in {"goto", "extract"} => u # cur.url}

\* The step of crawlPage that ends a fetch without links.
FetchFails == crawlPc = "goto" /\ crawlPc' # "extract"

GotoStep == gotos' = gotos + 1

\* No auditor has been started for the URL.
NoPluginRan == \A p \in Plugins : auditCall[p] = "idle"

\* C29: one call of navigateWithRetry makes at most retries+1 navigation
\* attempts (attempt numbers 0..retries); an attempt that returns ends the
\* loop, an attempt that throws before the last one is followed by another,
\* and when the last attempt throws as well the error ends the URL's audit:
\* the URL gets a failed AuditResult and no plugin has run for it.
C29_BoundedNavigation ==
  /\ [](attempt <= Retries)
  /\ [][GotoStep =>
          /\ lastGoto'.kind # "throw" => pagePc' # "navigate"
          /\ (lastGoto'.kind = "throw" /\ attempt < Retries) =>
               pagePc' = "navigate" /\ attempt' = attempt + 1
          /\ (lastGoto'.kind = "throw" /\ attempt = Retries) =>
               /\ pagePc' = "finally"
               /\ ~pageResult'.success
               /\ NoPluginRan']_vars
  /\ []((pagePc = "done" /\ lastGoto.kind = "throw") =>
          ~pageResult.success /\ NoPluginRan)

\* Every one of the retries+1 attempts of the only navigateWithRetry call
\* threw, with the browser up throughout, and the task ended in failure.
C29_Witness ==
  /\ pagePc = "done" /\ BrowserUp /\ level = 0
  /\ gotos = Retries + 1 /\ attempt = Retries
  /\ lastGoto.kind = "throw"
  /\ ~pageResult.success
  /\ NoPluginRan


(***************************************************************************)
(* AuditEngine.handleRateLimit: the backoff delay                          *)
(***************************************************************************)

\* Math.random() * 10000 lies in [0, 10000); delays are in whole ms.
JitterBound == 10000
Jitters == {0, 1, 5000, JitterBound - 1}

\* Values of config.rateLimitDelay and config.maxRetryDelay; 30000 and
\* 120000 are the engine's defaults (406-407).
RateLimitDelays == {1000, 30000, 50000, 200000}
MaxRetryDelays == {60000, 120000}

\* exponentialDelay with no cap on it.
MaxDelayUncapped(config, retryCount) == config.rateLimitDelay * 2^retryCount

\* handleRateLimit's exponentialDelay and maxDelay (917-919)
MaxDelay(config, retryCount) ==
  LET exponentialDelay == config.rateLimitDelay * 2^retryCount
  IN Min(exponentialDelay, config.maxRetryDelay)

\* handleRateLimit's jitterDelay (920), with jitter = Math.random() * 10000
JitterDelay(config, retryCount, jitter) == MaxDelay(config, retryCount) + jitter

InitBackoff ==
  /\ EnginesIdle /\ HtmlIdle /\ VisualIdle /\ ResolverIdle /\ StoreIdle /\ LimiterIdle
  /\ LandingIdle /\ PluginsIdle
  /\ backoffConfig \in [rateLimitDelay : RateLimitDelays,
                        maxRetryDelay : MaxRetryDelays]
  /\ backoffRetries = 0
  /\ backoffPc = "waiting"
  /\ sleeps = <<>>

BackoffUnchanged ==
  UNCHANGED <<auditVars, pageVars, crawlVars, baselineVars, htmlVars,
              visualVars, resolverVars, storeVars, landingVars, pluginVars,
                 limiterVars>>

\* handleRateLimit (898-932) for a 429 while the URL's retry count is below
\* the limit: the count is incremented and the call sleeps jitterDelay.
BackoffSleep(jitter) ==
  LET retryCount == backoffRetries IN
  /\ backoffPc = "waiting"
  /\ ~(retryCount >= MaxRateLimitRetries)
  /\ backoffRetries' = retryCount + 1
  /\ sleeps' = Append(sleeps,
                      [retryCount |-> retryCount,
                       jitter |-> jitter,
                       slept |-> JitterDelay(backoffConfig, retryCount, jitter)])
  /\ UNCHANGED <<backoffConfig, backoffPc>>
  /\ BackoffUnchanged

\* handleRateLimit for a 429 once the retry count has reached the limit
\* (902-913): a failed AuditResult, no sleep.
BackoffGiveUp ==
  LET retryCount == backoffRetries IN
  /\ backoffPc = "waiting"
  /\ retryCount >= MaxRateLimitRetries
  /\ backoffPc' = "failed"
  /\ UNCHANGED <<backoffConfig, backoffRetries, sleeps>>
  /\ BackoffUnchanged

NextBackoff == (\E jitter \in Jitters : BackoffSleep(jitter)) \/ BackoffGiveUp

SpecBackoff == InitBackoff /\ [][NextBackoff]_vars

\* The delay of a sleep without its jitter.
Unjittered(k) == sleeps[k].slept - sleeps[k].jitter

\* min(base * factor, cap)
CappedAt(base, factor, cap) ==
  IF base * factor <= cap THEN base * factor ELSE cap

\* C30: the sleep before the n-th rate-limit retry of a URL (n = 0, 1, 2 the
\* retry count before it) is min(rateLimitDelay * 2^n, maxRetryDelay) plus a
\* jitter of at least 0 and below 10000 ms; without the jitter the delay
\* never exceeds maxRetryDelay and never decreases from one retry to the
\* next.
C30_BackoffDelay ==
  \A k \in 1..Len(sleeps) :
    LET n == k - 1
        factor == CASE n = 0 -> 1 [] n = 1 -> 2 [] n = 2 -> 4
    IN /\ sleeps[k].retryCount = n
       /\ n \in 0..2
       /\ sleeps[k].jitter >= 0 /\ sleeps[k].jitter < 10000
       /\ Unjittered(k) = CappedAt(backoffConfig.rateLimitDelay, factor,
                                   backoffConfig.maxRetryDelay)
       /\ Unjittered(k) <= backoffConfig.maxRetryDelay
       /\ k > 1 => Unjittered(k) >= Unjittered(k - 1)

\* With the default delays the three sleeps were 30000, 60000 and 120000 ms
\* plus jitter, and the fourth 429 made handleRateLimit give up.
C30_Witness ==
  /\ backoffPc = "failed"
  /\ backoffConfig = [rateLimitDelay |-> 30000, maxRetryDelay |-> 120000]
  /\ Len(sleeps) = 3
  /\ Unjittered(1) = 30000 /\ Unjittered(2) = 60000 /\ Unjittered(3) = 120000
  /\ sleeps[3].jitter = JitterBound - 1


(***************************************************************************)
(* The crawl queue's tasks                                                 *)
(***************************************************************************)

\* C31: every task created during discoverUrls is dequeued exactly once
\* before discoverUrls returns: no URL is on the queue twice, no URL that
\* was dequeued is enqueued again, and no task is left on the queue when
\* discoverUrls returns.
C31_TasksDequeuedOnce ==
  /\ \A i, j \in 1..Len(crawlQueue) :
       i # j => crawlQueue[i].url # crawlQueue[j].url
  /\ \A i \in 1..Len(crawlQueue) : crawlQueue[i].url \notin visitedUrls
  /\ crawlPc = "returned" => crawlQueue = <<>>


(***************************************************************************)
(* Suspicious style changes                                                *)
(***************************************************************************)

\* The weight a font-weight value stands for: normal 400, bold 700,
\* otherwise its number.
WeightValue(w) ==
  CASE w = "normal" -> 400 [] w = "bold" -> 700
    [] w = "400" -> 400 [] w = "600" -> 600 [] w = "700" -> 700

\* C32: compareStyling flags a style change as suspicious if and only if the
\* selector starts with h2..h6 and either the new font-size is strictly more
\* than 1.2 times the baseline font-size or the new font-weight is strictly
\* greater than the baseline one; a change on an h1, a size increase of
\* exactly 20% and a decrease are never flagged.
C32_SuspiciousIffIncrease ==
  (HtmlAudited /\ Len(baselinePage.headings) = 1
               /\ Len(currentPage.headings) = 1) =>
    LET b == baselinePage.headings[1]
        c == currentPage.headings[1]
        flagged == htmlAudit.stylingComparison.suspiciousChanges # <<>>
    IN /\ flagged <=>
            /\ b.level \in 2..6
            /\ \/ 10 * c.fontSize > 12 * b.fontSize
               \/ WeightValue(c.fontWeight) > WeightValue(b.fontWeight)
       /\ flagged <=> htmlAudit.stylingComparison.hasCompensation


(***************************************************************************)
(* RateLimiter.acquire                                                     *)
(***************************************************************************)

InitLimiter ==
  /\ EnginesIdle /\ HtmlIdle /\ VisualIdle /\ ResolverIdle /\ StoreIdle
  /\ LandingIdle /\ PluginsIdle /\ BackoffIdle
  /\ limiter \in [requests : 1..2, window : 2..3]
  /\ clock = 0
  /\ admitted = <<>>
  /\ timers = <<>>
  /\ resolved = <<>>

LimiterUnchanged ==
  UNCHANGED <<auditVars, pageVars, crawlVars, baselineVars, htmlVars,
              visualVars, resolverVars, storeVars, landingVars, pluginVars,
              backoffVars>>

\* The number of acquire() calls made so far.
Acquires == Len(resolved) + Len(timers)

\* acquire() (8-24): the queue is filtered to the times younger than the
\* window; with room left the call is admitted and resolves at once,
\* otherwise a timer is set for the moment the oldest time leaves the window.
Acquire ==
  /\ limiter # NoLimiter
  /\ Acquires < MaxAcquires
  /\ LET InWindow(time) == clock - time < limiter.window
         filtered == SelectSeq(admitted, InWindow)
     IN IF Len(filtered) < limiter.requests
          THEN /\ admitted' = Append(filtered, clock)
               /\ resolved' = Append(resolved, clock)
               /\ UNCHANGED timers
          ELSE LET delay == limiter.window - (clock - filtered[1])
               IN /\ admitted' = filtered
                  /\ timers' = Append(timers, clock + delay)
                  /\ UNCHANGED resolved
  /\ UNCHANGED <<limiter, clock>>
  /\ LimiterUnchanged

\* The callback of a timer that is due (18-21): the time is pushed and the
\* promise resolves; the queue is not looked at.
TimerFires(k) ==
  /\ k \in 1..Len(timers)
  /\ timers[k] <= clock
  /\ admitted' = Append(admitted, clock)
  /\ resolved' = Append(resolved, clock)
  /\ timers' = [j \in 1..(Len(timers) - 1) |->
                  IF j < k THEN timers[j] ELSE timers[j + 1]]
  /\ UNCHANGED <<limiter, clock>>
  /\ LimiterUnchanged

\* One millisecond passes; the timers that are due have run.
Tick ==
  /\ limiter # NoLimiter
  /\ clock < MaxTime
  /\ \A k \in 1..Len(timers) : timers[k] > clock
  /\ clock' = clock + 1
  /\ UNCHANGED <<limiter, admitted, timers, resolved>>
  /\ LimiterUnchanged

NextLimiter == Acquire \/ (\E k \in 1..MaxAcquires : TimerFires(k)) \/ Tick

SpecLimiter == InitLimiter /\ [][NextLimiter]_vars

\* The acquire() calls that resolved in the interval [start, start + window)
ResolvedIn(start) ==
  {j \in 1..Len(resolved) :
     resolved[j] >= start /\ resolved[j] < start + limiter.window}

\* C33: the rate limiter enforces a sliding window: whatever the sequence
\* and interleaving of acquire() calls, several pending at once included, at
\* most `requests` calls resolve within any interval of length `window`.
C33_SlidingWindow ==
  \A start \in 0..MaxTime : Cardinality(ResolvedIn(start)) <= limiter.requests


(***************************************************************************)
(* Termination of auditUrls                                                *)
(***************************************************************************)

\* C34: auditUrls terminates: for a finite URL list, as long as every
\* navigation attempt and every sleep returns, every started task eventually
\* completes and auditUrls eventually returns, with runningTasks = 0 and an
\* empty pending list.
C34_AuditUrlsTerminates ==
  /\ \A u \in Urls : (task[u] # "idle") ~> (task[u] = "done")
  /\ <>(auditUrlsPc = "returned")
  /\ [](auditUrlsPc = "returned" => runningTasks = 0 /\ pending = <<>>)


(***************************************************************************)
(* The runningTasks counter                                                *)
(***************************************************************************)

\* C35: in every reachable state of the engine runningTasks is non-negative
\* and equals the number of audit tasks started and not yet completed, also
\* after emergencyStop was called with tasks in flight and those tasks
\* completed later.
C35_RunningTasksCountsInFlight ==
  /\ runningTasks >= 0
  /\ runningTasks = Cardinality(InFlight)

\* C36: with keepWindowsOpen off, once auditSingleUrl has run its finally
\* block and closed the page and context of the task, no plugin audit() call
\* that was started on that page is still executing; in particular a plugin
\* that lost the race against its timeout is not left running.
C36_NoPluginOnClosedPage ==
  (~keepWindowsOpen /\ pagePc = "done" /\ pg[0] = "closed") =>
    \A p \in Plugins : auditCall[p] # "running"

(***************************************************************************)
(* Claims about the crawler's URLs as strings                              *)
(***************************************************************************)

RECURSIVE Slashes(_)
Slashes(n) == IF n <= 0 THEN <<>> ELSE <<"/">> \o Slashes(n - 1)

\* The string a URL of the crawl model stands for. The seed is what
\* normalize made of the start URL (101); every other URL is what
\* urlResolver.resolve returned for an href of a page (315): an absolute href
\* is returned as written (27-29). URL 2 is the home page linked without its
\* slash, the URLs after it are one path written with more and more trailing
\* slashes, the last URL is on the other host.
UrlText(u) ==
  IF u = SeedUrl THEN Normalize(<<"https:", HostToken>>)
  ELSE IF Hostname(u) # BaseDomain THEN <<"https:", OtherHostToken, "/">>
  ELSE IF u = 2 THEN <<"https:", HostToken>>
  ELSE <<"https:", HostToken, "/", "a">> \o Slashes(u - 3)

\* C37: no two distinct members of the discovered set, and no two queued
\* tasks, have the same UrlResolver.normalize() value.
C37_DiscoveredDeduplicated ==
  /\ \A a, b \in discoveredUrls :
       a # b => Normalize(UrlText(a)) # Normalize(UrlText(b))
  /\ \A i, j \in 1..Len(crawlQueue) :
       i # j => Normalize(UrlText(crawlQueue[i].url))
                  # Normalize(UrlText(crawlQueue[j].url))

RECURSIVE WithinLinks(_)
\* The URLs a chain of at most k links leads to from the seed, over the links
\* the crawled pages carried (the memoized result of extractLinks, 259).
WithinLinks(k) ==
  IF k = 0 THEN {SeedUrl}
  ELSE LET near == WithinLinks(k - 1)
       IN near \cup {l \in CrawlUrls : \E p \in near : l \in cache[p]}

\* C38: every discovered URL is reachable from the seed by a chain of at
\* most maxDepth links; a URL that only chains of maxDepth + 1 or more links
\* lead to is not discovered.
C38_DiscoveredWithinMaxDepth ==
  crawlPc # "cleaned" => discoveredUrls \subseteq WithinLinks(maxDepth)

\* The three sets of the crawler are nested.
C39_State ==
  /\ visitedUrls \subseteq discoveredUrls
  /\ failedUrls \subseteq visitedUrls

\* crawlPage starts fetching a URL in this step (a context is opened for
\* page.goto, 170-204).
FetchStarts == crawlPc # "goto" /\ crawlPc' = "goto"

\* No set loses a member, and a URL that is fetched was not visited (so not
\* fetched and not failed) before.
C39_Step ==
  /\ discoveredUrls \subseteq discoveredUrls'
  /\ visitedUrls \subseteq visitedUrls'
  /\ failedUrls \subseteq failedUrls'
  /\ FetchStarts => /\ cur'.url \notin visitedUrls
                    /\ cur'.url \notin failedUrls
                    /\ cur'.url \in visitedUrls'

\* C39: throughout a run visitedUrls is a subset of discoveredUrls and
\* failedUrls a subset of visitedUrls, none of the three sets loses a
\* member, every URL is fetched at most once, and a failed URL is never
\* fetched again.
C39_NestedGrowingSets == []C39_State /\ [][C39_Step]_vars

\* C39 witness: URL 2 failed, and a page crawled after it (URL 3, enqueued
\* behind it) linked to it again; all three URLs were visited.
C39_Witness ==
  /\ crawlPc = "returned"
  /\ failedUrls = {2}
  /\ {SeedUrl, 2, 3} \subseteq visitedUrls
  /\ 2 \in cache[3]
  /\ {2, 3} \subseteq cache[SeedUrl]

(***************************************************************************)
(* Claims about a page compared with itself                                *)
(***************************************************************************)

\* C40: for every snapshot, compareStructures of the snapshot with itself
\* has hasChanges false and empty added, removed, modified and
\* hierarchyChanges lists, compareStyling of it with itself has
\* hasCompensation false and no suspicious change, no issue and no warning
\* is raised, and calculateStructureScore returns 100.
C40_SelfComparisonClean ==
  (htmlPc = "audited" /\ baselinePage = currentPage) =>
    LET structure == htmlAudit.structureComparison
        styling == htmlAudit.stylingComparison
    IN /\ ~structure.hasChanges
       /\ ~structure.titleChanged
       /\ ~structure.headingChanges.hasChanges
       /\ structure.headingChanges.added = <<>>
       /\ structure.headingChanges.removed = <<>>
       /\ structure.headingChanges.modified = <<>>
       /\ structure.headingChanges.hierarchyChanges = <<>>
       /\ ~structure.metaTagChanges.hasChanges
       /\ structure.metaTagChanges.added = <<>>
       /\ structure.metaTagChanges.removed = <<>>
       /\ structure.metaTagChanges.modified = <<>>
       /\ ~structure.elementChanges.hasChanges
       /\ ~styling.hasCompensation
       /\ styling.styleChanges = <<>>
       /\ styling.suspiciousChanges = <<>>
       /\ htmlAudit.issues = <<>>
       /\ htmlAudit.warnings = <<>>
       /\ htmlAudit.score = 100

\* C40 witness: a page with a description, an h1 and a bold h3 carrying an
\* id was audited against its own snapshot.
C40_Witness ==
  /\ htmlPc = "audited"
  /\ baselinePage = currentPage
  /\ currentPage.description = 1
  /\ Len(currentPage.headings) = 2
  /\ currentPage.headings[1].level = 1
  /\ currentPage.headings[2].level = 3
  /\ currentPage.headings[2].fontWeight = "bold"
  /\ currentPage.headings[2].id

=============================================================================
